---- MODULE Spec2Model ----
(***************************************************************************)
(* Model of relicta-tech/migrate: the detector (internal/detector), the    *)
(* converter (internal/converter) and the run that joins them.             *)
(*                                                                         *)
(* Go strings are sequences of tokens, each token standing for a fixed run *)
(* of characters ("${version}" is <<"$", "{", "version", "}">>).  The      *)
(* token alphabets are chosen so that an occurrence of one of the code's   *)
(* literal patterns in the characters is an occurrence in the tokens.      *)
(* A Go value of type any is a tagged record; a nil map or nil interface   *)
(* is Nil.                                                                 *)
(***************************************************************************)
EXTENDS Integers, Sequences, FiniteSets, TLC

VARIABLES pc, dir, reads, result, config, err, template, rendered,
          force, dryRun, outputPath, returned

vars == <<pc, dir, reads, result, config, err, template, rendered,
          force, dryRun, outputPath, returned>>

\* The state of a migrate run: the two flags, what the file at the output
\* path holds, and what the run returned.
runVars == <<force, dryRun, outputPath, returned>>

(***************************************************************************)
(* Bounds of the model.                                                    *)
(***************************************************************************)
MaxFiles == 2
MaxParts == 4
MaxTagParts == 3
MaxPlugins == 2
MaxOS == 2
MaxArch == 2
MaxRunFiles == 1

(***************************************************************************)
(* Values of type any.                                                     *)
(***************************************************************************)
Nil == [k |-> "nil"]
S(s) == [k |-> "str", s |-> s]
B(b) == [k |-> "bool", b |-> b]
N(n) == [k |-> "num", n |-> n]
L(l) == [k |-> "list", l |-> l]
M(m) == [k |-> "map", m |-> m]
SL(l) == [k |-> "strs", l |-> l]

EmptyMap == [x \in {} |-> Nil]

IsStr(v) == v.k = "str"
IsBool(v) == v.k = "bool"
IsList(v) == v.k = "list"
IsMap(v) == v.k = "map"

\* data[key] on a map[string]any that may be nil: a missing key reads as nil.
Get(d, key) == IF d.k = "map" /\ key \in DOMAIN d.m THEN d.m[key] ELSE Nil

\* _, ok := data[key]
Has(d, key) == d.k = "map" /\ key \in DOMAIN d.m

\* m[key] = v on a non-nil map
Put(d, key, v) ==
    M([x \in (DOMAIN d.m) \cup {key} |-> IF x = key THEN v ELSE d.m[x]])

MapOf(key, v) == M([x \in {key} |-> v])

(***************************************************************************)
(* package strings                                                         *)
(***************************************************************************)
HasPrefix(s, p) == Len(s) >= Len(p) /\ SubSeq(s, 1, Len(p)) = p

HasSuffix(s, p) == Len(s) >= Len(p) /\ SubSeq(s, Len(s) - Len(p) + 1, Len(s)) = p

TrimPrefix(s, p) == IF HasPrefix(s, p) THEN SubSeq(s, Len(p) + 1, Len(s)) ELSE s

TrimSuffix(s, p) == IF HasSuffix(s, p) THEN SubSeq(s, 1, Len(s) - Len(p)) ELSE s

\* strings.ReplaceAll for a non-empty old: the non-overlapping occurrences,
\* leftmost first.
RECURSIVE ReplaceAll(_, _, _)
ReplaceAll(s, old, new) ==
    IF Len(s) < Len(old) THEN s
    ELSE IF HasPrefix(s, old)
         THEN new \o ReplaceAll(SubSeq(s, Len(old) + 1, Len(s)), old, new)
         ELSE <<Head(s)>> \o ReplaceAll(Tail(s), old, new)

\* strings.Contains
RECURSIVE Contains(_, _)
Contains(s, p) ==
    IF Len(s) < Len(p) THEN FALSE
    ELSE HasPrefix(s, p) \/ Contains(Tail(s), p)

(***************************************************************************)
(* String literals of the converter.                                       *)
(***************************************************************************)
DollarVersion == <<"$", "{", "version", "}">>
DollarNextRelease == <<"$", "{", "nextRelease.", "version", "}">>
BraceVersion == <<"{", "{", "version", "}", "}">>
DotVersion == <<"{", "{", ".Version", "}", "}">>
SemanticReleaseScope == <<"@semantic-release/">>
ProjectNameToken == <<"{", "{", ".ProjectName", "}", "}">>
ChecksumsPath == <<"release/", "checksums.txt">>

(***************************************************************************)
(* converter: the canonical document                                       *)
(***************************************************************************)
PluginConfig(name, enabled, cfg) == [Name |-> name, Enabled |-> enabled, Config |-> cfg]

\* The starting document with tag pushing left at its zero value.
BaseConfigNoPush ==
    [Versioning |-> [Strategy |-> <<"conventional">>, TagPrefix |-> <<>>],
     Changelog  |-> [Enabled |-> TRUE, Template |-> <<>>, File |-> <<"CHANGELOG.md">>],
     Git        |-> [RequireCleanTree |-> TRUE, PushTags |-> FALSE, CreateTag |-> TRUE,
                     CommitMessage |-> <<>>, TagMessage |-> <<>>,
                     RequireUpToDate |-> FALSE, AllowedBranches |-> <<>>],
     Plugins    |-> <<>>,
     AI         |-> Nil]

\* The composite literal the first three converters start from.
BaseConfig ==
    [Versioning |-> [Strategy |-> <<"conventional">>, TagPrefix |-> <<>>],
     Changelog  |-> [Enabled |-> TRUE, Template |-> <<>>, File |-> <<"CHANGELOG.md">>],
     Git        |-> [RequireCleanTree |-> TRUE, PushTags |-> TRUE, CreateTag |-> TRUE,
                     CommitMessage |-> <<>>, TagMessage |-> <<>>,
                     RequireUpToDate |-> FALSE, AllowedBranches |-> <<>>],
     Plugins    |-> <<>>,
     AI         |-> Nil]

\* convertTemplate without the "{{version}}" replacement.
convertTemplateTwoPatterns(t) ==
    ReplaceAll(ReplaceAll(t, DollarVersion, DotVersion), DollarNextRelease, DotVersion)

\* convertTemplate: three literal replacements, in the code's order.
convertTemplate(t) ==
    LET t1 == ReplaceAll(t, DollarVersion, DotVersion)
        t2 == ReplaceAll(t1, DollarNextRelease, DotVersion)
    IN  ReplaceAll(t2, BraceVersion, DotVersion)

\* extractBranches: a string is a branch, a mapping gives its "name" when that
\* is a string, anything else is skipped.
RECURSIVE extractBranches(_)
extractBranches(branches) ==
    IF branches = <<>> THEN <<>>
    ELSE LET b == Head(branches)
             rest == extractBranches(Tail(branches))
         IN  IF IsStr(b) THEN <<b.s>> \o rest
             ELSE IF IsMap(b) /\ IsStr(Get(b, "name")) THEN <<Get(b, "name").s>> \o rest
             ELSE rest

\* mapSemanticReleasePlugin that leaves the configuration of a direct
\* equivalent behind.
mapSemanticReleasePluginNoConfig(name, cfg) ==
    LET n == TrimPrefix(name, SemanticReleaseScope)
    IN  CASE n = <<"github">> -> PluginConfig(<<"github">>, TRUE, Nil)
          [] n = <<"gitlab">> -> PluginConfig(<<"gitlab">>, TRUE, Nil)
          [] n = <<"npm">> -> PluginConfig(<<"npm">>, TRUE, Nil)
          [] n \in {<<"changelog">>, <<"release-notes-generator">>} -> Nil
          [] n = <<"commit-analyzer">> -> Nil
          [] n = <<"git">> -> Nil
          [] n = <<"exec">> ->
                PluginConfig(<<"custom">>, FALSE,
                    M([x \in {"_note", "_original"} |->
                        IF x = "_note" THEN S(<<"Migrate custom exec commands manually">>)
                        ELSE cfg]))
          [] OTHER ->
                PluginConfig(n, FALSE,
                    M([x \in {"_note", "_original"} |->
                        IF x = "_note" THEN S(<<"Unknown plugin - requires manual migration">>)
                        ELSE cfg]))

\* mapSemanticReleasePlugin that looks the name up without removing its scope.
mapSemanticReleasePluginScoped(name, cfg) ==
    CASE name = <<"github">> -> PluginConfig(<<"github">>, TRUE, cfg)
      [] name = <<"gitlab">> -> PluginConfig(<<"gitlab">>, TRUE, cfg)
      [] name = <<"npm">> -> PluginConfig(<<"npm">>, TRUE, cfg)
      [] name \in {<<"changelog">>, <<"release-notes-generator">>} -> Nil
      [] name = <<"commit-analyzer">> -> Nil
      [] name = <<"git">> -> Nil
      [] name = <<"exec">> ->
            PluginConfig(<<"custom">>, FALSE,
                M([x \in {"_note", "_original"} |->
                    IF x = "_note" THEN S(<<"Migrate custom exec commands manually">>)
                    ELSE cfg]))
      [] OTHER ->
            PluginConfig(name, FALSE,
                M([x \in {"_note", "_original"} |->
                    IF x = "_note" THEN S(<<"Unknown plugin - requires manual migration">>)
                    ELSE cfg]))

\* mapSemanticReleasePlugin: Nil is the nil *PluginConfig.
mapSemanticReleasePlugin(name, cfg) ==
    LET n == TrimPrefix(name, SemanticReleaseScope)
    IN  CASE n = <<"github">> -> PluginConfig(<<"github">>, TRUE, cfg)
          [] n = <<"gitlab">> -> PluginConfig(<<"gitlab">>, TRUE, cfg)
          [] n = <<"npm">> -> PluginConfig(<<"npm">>, TRUE, cfg)
          [] n \in {<<"changelog">>, <<"release-notes-generator">>} -> Nil
          [] n = <<"commit-analyzer">> -> Nil
          [] n = <<"git">> -> Nil
          [] n = <<"exec">> ->
                PluginConfig(<<"custom">>, FALSE,
                    M([x \in {"_note", "_original"} |->
                        IF x = "_note" THEN S(<<"Migrate custom exec commands manually">>)
                        ELSE cfg]))
          [] OTHER ->
                PluginConfig(n, FALSE,
                    M([x \in {"_note", "_original"} |->
                        IF x = "_note" THEN S(<<"Unknown plugin - requires manual migration">>)
                        ELSE cfg]))

\* The name the type switch of convertSemanticReleasePlugins reads from an entry.
pluginName(p) ==
    IF IsStr(p) THEN p.s
    ELSE IF IsList(p) /\ Len(p.l) > 0 /\ IsStr(p.l[1]) THEN p.l[1].s
    ELSE <<>>

\* pluginConfig that reads the configuration of a two-element entry only.
pluginConfigPairOnly(p) ==
    IF IsList(p) /\ Len(p.l) = 2 /\ IsMap(p.l[2]) THEN p.l[2] ELSE Nil

\* pluginConfig that reads a configuration only next to a name.
pluginConfigNamedOnly(p) ==
    IF IsList(p) /\ Len(p.l) > 1 /\ IsStr(p.l[1]) /\ IsMap(p.l[2]) THEN p.l[2] ELSE Nil

\* The configuration the type switch reads from an entry.
pluginConfig(p) ==
    IF IsList(p) /\ Len(p.l) > 1 /\ IsMap(p.l[2]) THEN p.l[2] ELSE Nil

\* convertSemanticReleasePlugins that skips an entry it reads no name from.
RECURSIVE convertSemanticReleasePluginsNamed(_)
convertSemanticReleasePluginsNamed(plugins) ==
    IF plugins = <<>> THEN <<>>
    ELSE LET p == Head(plugins)
             relictaPlugin == mapSemanticReleasePlugin(pluginName(p), pluginConfig(p))
             rest == convertSemanticReleasePluginsNamed(Tail(plugins))
         IN  IF relictaPlugin # Nil /\ pluginName(p) # <<>> THEN <<relictaPlugin>> \o rest
             ELSE rest

RECURSIVE convertSemanticReleasePlugins(_)
convertSemanticReleasePlugins(plugins) ==
    IF plugins = <<>> THEN <<>>
    ELSE LET p == Head(plugins)
             relictaPlugin == mapSemanticReleasePlugin(pluginName(p), pluginConfig(p))
             rest == convertSemanticReleasePlugins(Tail(plugins))
         IN  IF relictaPlugin # Nil THEN <<relictaPlugin>> \o rest ELSE rest

\* tagPrefixOf that removes every "${version}" of the template.
tagPrefixOfReplaceAll(tagFormat) == ReplaceAll(tagFormat, DollarVersion, <<>>)

\* The tag prefix taken as the text in front of the first "${version}".
RECURSIVE tagPrefixOfUpToPlaceholder(_)
tagPrefixOfUpToPlaceholder(tagFormat) ==
    IF tagFormat = <<>> \/ HasPrefix(tagFormat, DollarVersion) THEN <<>>
    ELSE <<Head(tagFormat)>> \o tagPrefixOfUpToPlaceholder(Tail(tagFormat))

\* The tag prefix of a template string: its trailing "${version}" removed.
tagPrefixOf(tagFormat) == TrimSuffix(tagFormat, DollarVersion)

convertSemanticRelease(data) ==
    LET tagFormat == Get(data, "tagFormat")
        branches == Get(data, "branches")
        plugins == Get(data, "plugins")
    IN  [BaseConfig EXCEPT
            !.Versioning.TagPrefix = IF IsStr(tagFormat) THEN tagPrefixOf(tagFormat.s) ELSE @,
            !.Git.AllowedBranches = IF IsList(branches) THEN extractBranches(branches.l) ELSE @,
            !.Plugins = IF IsList(plugins) THEN convertSemanticReleasePlugins(plugins.l) ELSE @]

\* The github plugin of convertReleaseIt: "draft" and "prerelease" are set
\* when the source holds booleans.
releaseItGithub(github) ==
    PluginConfig(<<"github">>, TRUE,
        M([key \in {x \in {"draft", "prerelease"} :
                        IsBool(Get(github, IF x = "draft" THEN "draft" ELSE "preRelease"))} |->
            Get(github, IF key = "draft" THEN "draft" ELSE "preRelease")]))

\* enabledIn that takes every value but false and nil for true.
enabledInTruthy(data, section, key) ==
    /\ IsMap(Get(data, section))
    /\ Get(Get(data, section), key) \notin {Nil, B(FALSE)}

\* data[section][key] is the boolean true.
enabledIn(data, section, key) ==
    /\ IsMap(Get(data, section))
    /\ IsBool(Get(Get(data, section), key))
    /\ Get(Get(data, section), key).b

convertReleaseIt(data) ==
    LET git == Get(data, "git")
        tagName == Get(git, "tagName")
        commitMessage == Get(git, "commitMessage")
        tagAnnotation == Get(git, "tagAnnotation")
        requireCleanWorkingDir == Get(git, "requireCleanWorkingDir")
        push == Get(git, "push")
    IN  [BaseConfig EXCEPT
            !.Versioning.TagPrefix = IF IsStr(tagName) THEN tagPrefixOf(tagName.s) ELSE @,
            !.Git.CommitMessage = IF IsStr(commitMessage) THEN convertTemplate(commitMessage.s) ELSE @,
            !.Git.TagMessage = IF IsStr(tagAnnotation) THEN convertTemplate(tagAnnotation.s) ELSE @,
            !.Git.RequireCleanTree = IF IsBool(requireCleanWorkingDir) THEN requireCleanWorkingDir.b ELSE @,
            !.Git.PushTags = IF IsBool(push) THEN push.b ELSE @,
            !.Plugins =
                (IF enabledIn(data, "npm", "publish")
                 THEN <<PluginConfig(<<"npm">>, TRUE, Nil)>> ELSE <<>>)
                \o (IF enabledIn(data, "github", "release")
                    THEN <<releaseItGithub(Get(data, "github"))>> ELSE <<>>)
                \o (IF enabledIn(data, "gitlab", "release")
                    THEN <<PluginConfig(<<"gitlab">>, TRUE, Nil)>> ELSE <<>>)]

\* convertStandardVersion in which either skip option disables both steps.
convertStandardVersionSkipAny(data) ==
    LET tagPrefix == Get(data, "tagPrefix")
        format == Get(data, "releaseCommitMessageFormat")
        infile == Get(data, "infile")
        skipped == enabledIn(data, "skip", "changelog") \/ enabledIn(data, "skip", "tag")
    IN  [BaseConfig EXCEPT
            !.Versioning.TagPrefix = IF IsStr(tagPrefix) THEN tagPrefix.s ELSE @,
            !.Changelog.Enabled = IF skipped THEN FALSE ELSE @,
            !.Git.CreateTag = IF skipped THEN FALSE ELSE @,
            !.Git.CommitMessage = IF IsStr(format) THEN convertTemplate(format.s) ELSE @,
            !.Changelog.File = IF IsStr(infile) THEN infile.s ELSE @]

convertStandardVersion(data) ==
    LET tagPrefix == Get(data, "tagPrefix")
        format == Get(data, "releaseCommitMessageFormat")
        infile == Get(data, "infile")
    IN  [BaseConfig EXCEPT
            !.Versioning.TagPrefix = IF IsStr(tagPrefix) THEN tagPrefix.s ELSE @,
            !.Changelog.Enabled = IF enabledIn(data, "skip", "changelog") THEN FALSE ELSE @,
            !.Git.CreateTag = IF enabledIn(data, "skip", "tag") THEN FALSE ELSE @,
            !.Git.CommitMessage = IF IsStr(format) THEN convertTemplate(format.s) ELSE @,
            !.Changelog.File = IF IsStr(infile) THEN infile.s ELSE @]

\* toStringSlice: the string elements, in order; other elements are dropped.
RECURSIVE toStringSlice(_)
toStringSlice(input) ==
    IF input = <<>> THEN <<>>
    ELSE IF IsStr(Head(input)) THEN <<Head(input).s>> \o toStringSlice(Tail(input))
    ELSE toStringSlice(Tail(input))

\* builds[0] when "builds" is a non-empty list whose first element is a mapping.
firstBuild(data) ==
    LET builds == Get(data, "builds")
    IN  IF IsList(builds) /\ Len(builds.l) > 0 /\ IsMap(builds.l[1]) THEN builds.l[1] ELSE Nil

\* The binary name used in the asset paths.
binaryNameOf(data, projectName) ==
    LET binary == Get(firstBuild(data), "binary")
        n == IF IsStr(binary) THEN binary.s ELSE projectName
    IN  IF n = <<>> THEN ProjectNameToken ELSE n

goosOf(data) ==
    LET g == Get(firstBuild(data), "goos")
    IN  IF IsList(g) THEN toStringSlice(g.l) ELSE <<<<"linux">>, <<"darwin">>, <<"windows">>>>

goarchOf(data) ==
    LET g == Get(firstBuild(data), "goarch")
    IN  IF IsList(g) THEN toStringSlice(g.l) ELSE <<<<"amd64">>, <<"arm64">>>>

\* assetPath that gives every operating system the ".tar.gz" extension.
assetPathTarOnly(binaryName, os, arch) ==
    LET archName == IF arch = <<"amd64">> THEN <<"x86_64">>
                    ELSE IF arch = <<"arm64">> THEN <<"aarch64">>
                    ELSE arch
    IN  <<"release/">> \o binaryName \o <<"_">> \o os \o <<"_">> \o archName \o <<".tar.gz">>

\* One path of the inner loop body.
assetPath(binaryName, os, arch) ==
    LET archName == IF arch = <<"amd64">> THEN <<"x86_64">>
                    ELSE IF arch = <<"arm64">> THEN <<"aarch64">>
                    ELSE arch
        ext == IF os = <<"windows">> THEN <<".zip">> ELSE <<".tar.gz">>
    IN  <<"release/">> \o binaryName \o <<"_">> \o os \o <<"_">> \o archName \o ext

\* The two nested loops: OS-major, architecture-minor.
RECURSIVE archLoop(_, _, _)
archLoop(binaryName, os, goarch) ==
    IF goarch = <<>> THEN <<>>
    ELSE <<assetPath(binaryName, os, Head(goarch))>> \o archLoop(binaryName, os, Tail(goarch))

RECURSIVE osLoop(_, _, _)
osLoop(binaryName, goos, goarch) ==
    IF goos = <<>> THEN <<>>
    ELSE archLoop(binaryName, Head(goos), goarch) \o osLoop(binaryName, Tail(goos), goarch)

\* extractGoReleaserAssets that adds the checksums path once per operating
\* system.
RECURSIVE osLoopWithChecksums(_, _, _)
osLoopWithChecksums(binaryName, goos, goarch) ==
    IF goos = <<>> THEN <<>>
    ELSE archLoop(binaryName, Head(goos), goarch) \o <<ChecksumsPath>>
            \o osLoopWithChecksums(binaryName, Tail(goos), goarch)

extractGoReleaserAssetsPerOS(data, projectName) ==
    LET a == osLoopWithChecksums(binaryNameOf(data, projectName), goosOf(data), goarchOf(data))
    IN  IF a = <<>> THEN <<ChecksumsPath>> ELSE a

extractGoReleaserAssets(data, projectName) ==
    osLoop(binaryNameOf(data, projectName), goosOf(data), goarchOf(data)) \o <<ChecksumsPath>>

\* setAssets that leaves an entry without a config mapping as it is.
RECURSIVE setAssetsExistingConfig(_, _)
setAssetsExistingConfig(plugins, assets) ==
    IF plugins = <<>> THEN <<>>
    ELSE LET p == Head(plugins)
         IN  IF p.Name = <<"github">>
             THEN <<IF p.Config = Nil THEN p
                    ELSE [p EXCEPT !.Config = Put(p.Config, "assets", SL(assets))]>>
                  \o Tail(plugins)
             ELSE <<p>> \o setAssetsExistingConfig(Tail(plugins), assets)

\* Config["assets"] = assets on the first plugin named "github".
RECURSIVE setAssets(_, _)
setAssets(plugins, assets) ==
    IF plugins = <<>> THEN <<>>
    ELSE LET p == Head(plugins)
         IN  IF p.Name = <<"github">>
             THEN <<[p EXCEPT !.Config =
                        Put(IF p.Config = Nil THEN M(EmptyMap) ELSE p.Config,
                            "assets", SL(assets))]>> \o Tail(plugins)
             ELSE <<p>> \o setAssets(Tail(plugins), assets)

\* The github plugin built from the "release" mapping.
releasePlugin(release) ==
    LET github == Get(release, "github")
        prerelease == Get(release, "prerelease")
        set == [owner |-> IsStr(Get(github, "owner")),
                repo |-> IsStr(Get(github, "name")),
                draft |-> IsBool(Get(release, "draft")),
                prerelease |-> IsStr(prerelease) \/ IsBool(prerelease),
                name_template |-> IsStr(Get(release, "name_template"))]
    IN  PluginConfig(<<"github">>, TRUE,
            M([key \in {x \in DOMAIN set : set[x]} |->
                CASE key = "owner" -> Get(github, "owner")
                  [] key = "repo" -> Get(github, "name")
                  [] key = "draft" -> Get(release, "draft")
                  [] key = "prerelease" ->
                        IF IsStr(prerelease) THEN B(prerelease.s = <<"auto">>) ELSE prerelease
                  [] key = "name_template" -> Get(release, "name_template")]))

\* convertGoReleaser that adds no plugin when the tree has no release mapping.
convertGoReleaserNoDefault(data) ==
    LET pn == Get(data, "project_name")
        projectName == IF IsStr(pn) THEN pn.s ELSE <<>>
        release == Get(data, "release")
        plugins == IF IsMap(release) THEN <<releasePlugin(release)>> ELSE <<>>
        assets == extractGoReleaserAssets(data, projectName)
    IN  [BaseConfig EXCEPT
            !.Versioning.TagPrefix = <<"v">>,
            !.Git.AllowedBranches = << <<"main">> >>,
            !.Changelog.Enabled = IF enabledIn(data, "changelog", "skip") THEN FALSE ELSE @,
            !.Plugins = IF Len(assets) > 0 THEN setAssets(plugins, assets) ELSE plugins]

convertGoReleaser(data) ==
    LET pn == Get(data, "project_name")
        projectName == IF IsStr(pn) THEN pn.s ELSE <<>>
        release == Get(data, "release")
        plugins == IF IsMap(release) THEN <<releasePlugin(release)>>
                   ELSE <<PluginConfig(<<"github">>, TRUE, Nil)>>
        assets == extractGoReleaserAssets(data, projectName)
    IN  [BaseConfig EXCEPT
            !.Versioning.TagPrefix = <<"v">>,
            !.Git.AllowedBranches = << <<"main">> >>,
            !.Changelog.Enabled = IF enabledIn(data, "changelog", "skip") THEN FALSE ELSE @,
            !.Plugins = IF Len(assets) > 0 THEN setAssets(plugins, assets) ELSE plugins]

(***************************************************************************)
(* detector: tools and results                                             *)
(***************************************************************************)
ToolNone == "none"
ToolSemanticRelease == "semantic-release"
ToolReleaseIt == "release-it"
ToolStandardVersion == "standard-version"
ToolGoReleaser == "goreleaser"

Result(tool, file, data, details) ==
    [Tool |-> tool, ConfigFile |-> file, ConfigData |-> data, Details |-> details]

\* Convert that maps the highlights of a standard-version result instead of
\* its tree.
ConvertFromDetails(r) ==
    CASE r.Tool = ToolSemanticRelease -> [config |-> convertSemanticRelease(r.ConfigData), err |-> Nil]
      [] r.Tool = ToolReleaseIt -> [config |-> convertReleaseIt(r.ConfigData), err |-> Nil]
      [] r.Tool = ToolStandardVersion -> [config |-> convertStandardVersion(r.Details), err |-> Nil]
      [] r.Tool = ToolGoReleaser -> [config |-> convertGoReleaser(r.ConfigData), err |-> Nil]
      [] OTHER -> [config |-> Nil, err |-> S(<<"unsupported tool: ", r.Tool>>)]

\* Convert that falls back to the standard-version mapping for any other tool.
ConvertWithFallback(r) ==
    CASE r.Tool = ToolSemanticRelease -> [config |-> convertSemanticRelease(r.ConfigData), err |-> Nil]
      [] r.Tool = ToolReleaseIt -> [config |-> convertReleaseIt(r.ConfigData), err |-> Nil]
      [] r.Tool = ToolGoReleaser -> [config |-> convertGoReleaser(r.ConfigData), err |-> Nil]
      [] OTHER -> [config |-> convertStandardVersion(r.ConfigData), err |-> Nil]

\* Convert that records an unreadable script source as a disabled plugin
\* entry with a note.
ConvertNotingScript(r) ==
    LET c == CASE r.Tool = ToolSemanticRelease ->
                    [config |-> convertSemanticRelease(r.ConfigData), err |-> Nil]
               [] r.Tool = ToolReleaseIt ->
                    [config |-> convertReleaseIt(r.ConfigData), err |-> Nil]
               [] r.Tool = ToolStandardVersion ->
                    [config |-> convertStandardVersion(r.ConfigData), err |-> Nil]
               [] r.Tool = ToolGoReleaser ->
                    [config |-> convertGoReleaser(r.ConfigData), err |-> Nil]
               [] OTHER -> [config |-> Nil, err |-> S(<<"unsupported tool: ", r.Tool>>)]
    IN  IF c.err = Nil /\ Has(r.ConfigData, "_jsConfig")
        THEN [c EXCEPT !.config.Plugins = @ \o
                <<PluginConfig(<<"custom">>, FALSE,
                               MapOf("_note", S(<<"Script config - requires manual migration">>)))>>]
        ELSE c

\* Convert: the document and the error it returns (Nil is nil).
Convert(r) ==
    CASE r.Tool = ToolSemanticRelease -> [config |-> convertSemanticRelease(r.ConfigData), err |-> Nil]
      [] r.Tool = ToolReleaseIt -> [config |-> convertReleaseIt(r.ConfigData), err |-> Nil]
      [] r.Tool = ToolStandardVersion -> [config |-> convertStandardVersion(r.ConfigData), err |-> Nil]
      [] r.Tool = ToolGoReleaser -> [config |-> convertGoReleaser(r.ConfigData), err |-> Nil]
      [] OTHER -> [config |-> Nil, err |-> S(<<"unsupported tool: ", r.Tool>>)]

(***************************************************************************)
(* detector: the directory.  A file name is the sequence of its dot        *)
(* segments, so that filepath.Ext is its last segment.  A file is absent,  *)
(* unreadable, or holds bytes that parse as JSON (into a tree), as YAML    *)
(* but not JSON (into a tree), or as neither.                              *)
(***************************************************************************)
SemanticReleaseFiles ==
    << <<".releaserc">>, <<".releaserc", ".json">>, <<".releaserc", ".yaml">>,
       <<".releaserc", ".yml">>, <<"release", ".config", ".js">>,
       <<"release", ".config", ".cjs">> >>

ReleaseItFiles ==
    << <<".release-it", ".json">>, <<".release-it", ".yaml">>, <<".release-it", ".yml">>,
       <<".release-it", ".js">>, <<".release-it", ".cjs">>, <<".release-it", ".ts">> >>

StandardVersionFiles ==
    << <<".versionrc">>, <<".versionrc", ".json">>, <<".versionrc", ".js">>,
       <<".versionrc", ".cjs">> >>

GoReleaserFiles ==
    << <<".goreleaser", ".yml">>, <<".goreleaser", ".yaml">>, <<"goreleaser", ".yml">>,
       <<"goreleaser", ".yaml">> >>

PackageJSON == <<"package", ".json">>

Range(f) == {f[i] : i \in DOMAIN f}

Unreadable == [kind |-> "unreadable"]
Garbage == [kind |-> "garbage"]
Json(t) == [kind |-> "json", tree |-> t]
Yaml(t) == [kind |-> "yaml", tree |-> t]

\* filepath.Ext on the names above
Ext(name) == name[Len(name)]

\* filepath.Join(dir, file)
Join(file) == <<"dir/">> \o file

\* os.ReadFile fails: the file is absent or cannot be read.
readFails(d, name) == name \notin DOMAIN d \/ d[name].kind = "unreadable"

\* readConfigFile without the script-extension case.
readConfigFileNoScripts(d, name) ==
    IF readFails(d, name) THEN [ok |-> FALSE, data |-> Nil]
    ELSE IF d[name].kind \in {"json", "yaml"} THEN [ok |-> TRUE, data |-> d[name].tree]
    ELSE [ok |-> FALSE, data |-> Nil]

\* readConfigFile whose failure to parse is taken for a match with no tree.
readConfigFileLenient(d, name) ==
    IF readFails(d, name) THEN [ok |-> FALSE, data |-> Nil]
    ELSE IF d[name].kind \in {"json", "yaml"} THEN [ok |-> TRUE, data |-> d[name].tree]
    ELSE [ok |-> TRUE, data |-> Nil]

\* readConfigFile: JSON first, then YAML, then the script extensions.
readConfigFile(d, name) ==
    IF readFails(d, name) THEN [ok |-> FALSE, data |-> Nil]
    ELSE IF d[name].kind = "json" THEN [ok |-> TRUE, data |-> d[name].tree]
    ELSE IF d[name].kind = "yaml" THEN [ok |-> TRUE, data |-> d[name].tree]
    ELSE IF Ext(name) \in {".js", ".cjs", ".ts"}
         THEN [ok |-> TRUE, data |-> MapOf("_jsConfig", B(TRUE))]
    ELSE [ok |-> FALSE, data |-> Nil]

\* readPackageJSON: JSON only.
readPackageJSON(d, name) ==
    IF readFails(d, name) THEN [ok |-> FALSE, data |-> Nil]
    ELSE IF d[name].kind = "json" THEN [ok |-> TRUE, data |-> d[name].tree]
    ELSE [ok |-> FALSE, data |-> Nil]

countPlugins(plugins) == IF IsList(plugins) THEN Len(plugins.l) ELSE 0

\* A details map: set[key] tells whether the code assigns details[key], and
\* val[key] is what it assigns.
detailsOf(set, val) == M([key \in {x \in DOMAIN set : set[x]} |-> val[key]])

extractSemanticReleaseDetails(data) ==
    detailsOf([branches |-> Has(data, "branches"),
               plugins |-> Has(data, "plugins"),
               tagFormat |-> Has(data, "tagFormat")],
              [branches |-> Get(data, "branches"),
               plugins |-> N(countPlugins(Get(data, "plugins"))),
               tagFormat |-> Get(data, "tagFormat")])

extractReleaseItDetails(data) ==
    detailsOf([tagName |-> Has(Get(data, "git"), "tagName"),
               npmPublish |-> Has(Get(data, "npm"), "publish"),
               githubRelease |-> Has(Get(data, "github"), "release")],
              [tagName |-> Get(Get(data, "git"), "tagName"),
               npmPublish |-> Get(Get(data, "npm"), "publish"),
               githubRelease |-> Get(Get(data, "github"), "release")])

extractStandardVersionDetails(data) ==
    detailsOf([tagPrefix |-> Has(data, "tagPrefix"),
               skip |-> IsMap(Get(data, "skip")),
               customTypes |-> Has(data, "types")],
              [tagPrefix |-> Get(data, "tagPrefix"),
               skip |-> Get(data, "skip"),
               customTypes |-> B(TRUE)])

\* len(v) of a []any; 0 stands in where the code does not take the length.
lenOf(v) == IF IsList(v) THEN Len(v.l) ELSE 0

extractGoReleaserDetails(data) ==
    detailsOf([projectName |-> IsStr(Get(data, "project_name")),
               buildsCount |-> IsList(Get(data, "builds")),
               archivesCount |-> IsList(Get(data, "archives")),
               github |-> IsMap(Get(Get(data, "release"), "github")),
               draft |-> IsBool(Get(Get(data, "release"), "draft")),
               prerelease |-> Has(Get(data, "release"), "prerelease"),
               changelogSkip |-> IsBool(Get(Get(data, "changelog"), "skip")),
               changelogSort |-> IsStr(Get(Get(data, "changelog"), "sort")),
               goos |-> IsList(Get(firstBuild(data), "goos")),
               goarch |-> IsList(Get(firstBuild(data), "goarch"))],
              [projectName |-> Get(data, "project_name"),
               buildsCount |-> N(lenOf(Get(data, "builds"))),
               archivesCount |-> N(lenOf(Get(data, "archives"))),
               github |-> Get(Get(data, "release"), "github"),
               draft |-> Get(Get(data, "release"), "draft"),
               prerelease |-> Get(Get(data, "release"), "prerelease"),
               changelogSkip |-> Get(Get(data, "changelog"), "skip"),
               changelogSort |-> Get(Get(data, "changelog"), "sort"),
               goos |-> Get(firstBuild(data), "goos"),
               goarch |-> Get(firstBuild(data), "goarch")])

extractDetails(tool, data) ==
    CASE tool = ToolSemanticRelease -> extractSemanticReleaseDetails(data)
      [] tool = ToolReleaseIt -> extractReleaseItDetails(data)
      [] tool = ToolStandardVersion -> extractStandardVersionDetails(data)
      [] tool = ToolGoReleaser -> extractGoReleaserDetails(data)

\* scanConfigFilesFrom that gives up at the first candidate that exists but
\* is not accepted.
RECURSIVE scanConfigFilesAbort(_, _, _, _)
scanConfigFilesAbort(d, tool, configFiles, i) ==
    IF i > Len(configFiles) THEN [res |-> Nil, reads |-> configFiles]
    ELSE IF readConfigFile(d, configFiles[i]).ok
         THEN [res |-> Result(tool, Join(configFiles[i]), readConfigFile(d, configFiles[i]).data,
                              extractDetails(tool, readConfigFile(d, configFiles[i]).data)),
               reads |-> SubSeq(configFiles, 1, i)]
         ELSE IF configFiles[i] \in DOMAIN d
              THEN [res |-> Nil, reads |-> SubSeq(configFiles, 1, i)]
              ELSE scanConfigFilesAbort(d, tool, configFiles, i + 1)

\* The loop over a tool's dedicated files, from position i on: the first that
\* reads and parses is returned; res is Nil when none does.  reads lists the
\* files passed to os.ReadFile, in order.
RECURSIVE scanConfigFilesFrom(_, _, _, _)
scanConfigFilesFrom(d, tool, configFiles, i) ==
    IF i > Len(configFiles) THEN [res |-> Nil, reads |-> configFiles]
    ELSE IF readConfigFile(d, configFiles[i]).ok
         THEN [res |-> Result(tool, Join(configFiles[i]), readConfigFile(d, configFiles[i]).data,
                              extractDetails(tool, readConfigFile(d, configFiles[i]).data)),
               reads |-> SubSeq(configFiles, 1, i)]
         ELSE scanConfigFilesFrom(d, tool, configFiles, i + 1)

scanConfigFiles(d, tool, configFiles) == scanConfigFilesFrom(d, tool, configFiles, 1)

\* scanManifest that takes any value under the key for a configuration.
scanManifestAnyValue(d, tool, key) ==
    LET pkg == readPackageJSON(d, PackageJSON)
        v == Get(pkg.data, key)
    IN  IF pkg.ok /\ Has(pkg.data, key)
        THEN [res |-> Result(tool, Join(PackageJSON) \o <<" (", key, " key)">>, v,
                             extractDetails(tool, v)),
              reads |-> <<PackageJSON>>]
        ELSE [res |-> Nil, reads |-> <<PackageJSON>>]

\* The package.json fallback of a tool: its key must hold a mapping.
scanManifest(d, tool, key) ==
    LET pkg == readPackageJSON(d, PackageJSON)
        v == Get(pkg.data, key)
    IN  IF pkg.ok /\ IsMap(v)
        THEN [res |-> Result(tool, Join(PackageJSON) \o <<" (", key, " key)">>, v,
                             extractDetails(tool, v)),
              reads |-> <<PackageJSON>>]
        ELSE [res |-> Nil, reads |-> <<PackageJSON>>]

\* detectWithManifest that adds the keys of the manifest's mapping to the
\* tree of the dedicated file.
detectMerging(d, tool, configFiles, key) ==
    LET a == scanConfigFiles(d, tool, configFiles)
        b == scanManifest(d, tool, key)
    IN  IF a.res # Nil
        THEN IF b.res # Nil /\ IsMap(a.res.ConfigData)
             THEN [res |-> [a.res EXCEPT !.ConfigData =
                        M([x \in DOMAIN a.res.ConfigData.m \cup DOMAIN b.res.ConfigData.m |->
                            IF x \in DOMAIN a.res.ConfigData.m THEN a.res.ConfigData.m[x]
                            ELSE b.res.ConfigData.m[x]])],
                   reads |-> a.reads]
             ELSE a
        ELSE [res |-> b.res, reads |-> a.reads \o b.reads]

\* detectWithManifest that consults the manifest before the dedicated files.
detectManifestFirst(d, tool, configFiles, key) ==
    LET a == scanConfigFiles(d, tool, configFiles)
        b == scanManifest(d, tool, key)
    IN  IF b.res # Nil THEN b
        ELSE [res |-> a.res, reads |-> b.reads \o a.reads]

\* A detector with a manifest fallback.
detectWithManifest(d, tool, configFiles, key) ==
    LET a == scanConfigFiles(d, tool, configFiles)
        b == scanManifest(d, tool, key)
    IN  IF a.res # Nil THEN a
        ELSE [res |-> b.res, reads |-> a.reads \o b.reads]

detectSemanticRelease(d) ==
    detectWithManifest(d, ToolSemanticRelease, SemanticReleaseFiles, "release")

detectReleaseIt(d) ==
    detectWithManifest(d, ToolReleaseIt, ReleaseItFiles, "release-it")

detectStandardVersion(d) ==
    detectWithManifest(d, ToolStandardVersion, StandardVersionFiles, "standard-version")

detectGoReleaser(d) == scanConfigFiles(d, ToolGoReleaser, GoReleaserFiles)

NoneResult == Result(ToolNone, <<>>, Nil, Nil)

\* Detect that looks for the dedicated files of every tool before it looks
\* into package.json.
DetectDedicatedFirst(d) ==
    LET a == scanConfigFiles(d, ToolSemanticRelease, SemanticReleaseFiles)
        b == scanConfigFiles(d, ToolReleaseIt, ReleaseItFiles)
        c == scanConfigFiles(d, ToolStandardVersion, StandardVersionFiles)
        g == scanConfigFiles(d, ToolGoReleaser, GoReleaserFiles)
        ma == scanManifest(d, ToolSemanticRelease, "release")
        mb == scanManifest(d, ToolReleaseIt, "release-it")
        mc == scanManifest(d, ToolStandardVersion, "standard-version")
        files == a.reads \o b.reads \o c.reads \o g.reads
    IN  IF a.res # Nil THEN [res |-> a.res, err |-> Nil, reads |-> a.reads]
        ELSE IF b.res # Nil THEN [res |-> b.res, err |-> Nil, reads |-> a.reads \o b.reads]
        ELSE IF c.res # Nil
             THEN [res |-> c.res, err |-> Nil, reads |-> a.reads \o b.reads \o c.reads]
        ELSE IF g.res # Nil THEN [res |-> g.res, err |-> Nil, reads |-> files]
        ELSE IF ma.res # Nil THEN [res |-> ma.res, err |-> Nil, reads |-> files \o ma.reads]
        ELSE IF mb.res # Nil
             THEN [res |-> mb.res, err |-> Nil, reads |-> files \o ma.reads \o mb.reads]
        ELSE IF mc.res # Nil
             THEN [res |-> mc.res, err |-> Nil,
                   reads |-> files \o ma.reads \o mb.reads \o mc.reads]
        ELSE [res |-> NoneResult, err |-> Nil,
              reads |-> files \o ma.reads \o mb.reads \o mc.reads]

\* Detect that runs every detector before it picks the first result.
DetectEager(d) ==
    LET a == detectSemanticRelease(d)
        b == detectReleaseIt(d)
        c == detectStandardVersion(d)
        g == detectGoReleaser(d)
        all == a.reads \o b.reads \o c.reads \o g.reads
    IN  IF a.res # Nil THEN [res |-> a.res, err |-> Nil, reads |-> all]
        ELSE IF b.res # Nil THEN [res |-> b.res, err |-> Nil, reads |-> all]
        ELSE IF c.res # Nil THEN [res |-> c.res, err |-> Nil, reads |-> all]
        ELSE IF g.res # Nil THEN [res |-> g.res, err |-> Nil, reads |-> all]
        ELSE [res |-> NoneResult, err |-> Nil, reads |-> all]

\* Detect with release-it probed before semantic-release.
DetectReleaseItFirst(d) ==
    LET a == detectReleaseIt(d)
        b == detectSemanticRelease(d)
        c == detectStandardVersion(d)
        g == detectGoReleaser(d)
    IN  IF a.res # Nil THEN [res |-> a.res, err |-> Nil, reads |-> a.reads]
        ELSE IF b.res # Nil THEN [res |-> b.res, err |-> Nil, reads |-> a.reads \o b.reads]
        ELSE IF c.res # Nil
             THEN [res |-> c.res, err |-> Nil, reads |-> a.reads \o b.reads \o c.reads]
        ELSE IF g.res # Nil
             THEN [res |-> g.res, err |-> Nil,
                   reads |-> a.reads \o b.reads \o c.reads \o g.reads]
        ELSE [res |-> NoneResult, err |-> Nil,
              reads |-> a.reads \o b.reads \o c.reads \o g.reads]

\* Detect: the detectors in their fixed order; the first non-nil result with
\* a tool is returned, and the error is always nil.
Detect(d) ==
    LET a == detectSemanticRelease(d)
        b == detectReleaseIt(d)
        c == detectStandardVersion(d)
        g == detectGoReleaser(d)
    IN  IF a.res # Nil /\ a.res.Tool # ToolNone THEN [res |-> a.res, err |-> Nil, reads |-> a.reads]
        ELSE IF b.res # Nil /\ b.res.Tool # ToolNone
             THEN [res |-> b.res, err |-> Nil, reads |-> a.reads \o b.reads]
        ELSE IF c.res # Nil /\ c.res.Tool # ToolNone
             THEN [res |-> c.res, err |-> Nil, reads |-> a.reads \o b.reads \o c.reads]
        ELSE IF g.res # Nil /\ g.res.Tool # ToolNone
             THEN [res |-> g.res, err |-> Nil,
                   reads |-> a.reads \o b.reads \o c.reads \o g.reads]
        ELSE [res |-> NoneResult, err |-> Nil,
              reads |-> a.reads \o b.reads \o c.reads \o g.reads]

(***************************************************************************)
(* Inputs.                                                                 *)
(***************************************************************************)
RECURSIVE Flatten(_)
Flatten(parts) == IF parts = <<>> THEN <<>> ELSE Head(parts) \o Flatten(Tail(parts))

\* Template strings: up to MaxParts pieces, each a single token or one of the
\* placeholders.
TemplateParts ==
    {<<"$">>, <<"{">>, <<"}">>, <<"version">>, <<"nextRelease.">>, <<".Version">>,
     <<"chore(release): ">>, DollarVersion, DollarNextRelease, BraceVersion, DotVersion}

\* Tag templates.
TagParts == {<<"v">>, <<"-">>, <<"$">>, <<"{">>, <<"version">>, <<"}">>, DollarVersion}

\* The tree of a dedicated file: one key that names the file.
FileTree(f) == MapOf("tagPrefix", S(f))

\* The mapping under a key of package.json.
KeyTree(key) ==
    M([x \in {"tagPrefix", "infile"} |->
        IF x = "tagPrefix" THEN S(<<key>>) ELSE S(<<"HISTORY.md">>)])

ManifestKeys == {"release", "release-it", "standard-version"}

\* package.json: every subset of the three keys, each holding a mapping or a
\* string.
ManifestTrees ==
    UNION {{M(m) : m \in [ks -> {"mapping", "string"}]} : ks \in SUBSET ManifestKeys}

ManifestTree(t) ==
    M([key \in DOMAIN t.m |->
        IF t.m[key] = "mapping" THEN KeyTree(key) ELSE S(<<"1.0.0">>)])

ContentsFor(f) ==
    IF f = PackageJSON
    THEN {Unreadable, Garbage, Yaml(M(EmptyMap)),
          Yaml(M([key \in ManifestKeys |-> KeyTree(key)]))}
            \cup {Json(ManifestTree(t)) : t \in ManifestTrees}
    ELSE {Unreadable, Garbage, Json(FileTree(f)), Yaml(FileTree(f))}

\* The candidate names in one fixed enumeration order.
AllFiles ==
    SemanticReleaseFiles \o ReleaseItFiles \o StandardVersionFiles \o GoReleaserFiles
        \o <<PackageJSON>>

\* The directory holding the files named in files with the contents cs: a
\* directory maps the names of its files to their contents.
RECURSIVE MkDir(_, _)
MkDir(files, cs) ==
    IF files = <<>> THEN <<>>
    ELSE (Head(files) :> Head(cs)) @@ MkDir(Tail(files), Tail(cs))

\* The contents a sequence of files can have.
RECURSIVE ContentSeqs(_)
ContentSeqs(files) ==
    IF files = <<>> THEN {<<>>}
    ELSE {<<c>> \o r : c \in ContentsFor(Head(files)), r \in ContentSeqs(Tail(files))}

\* Positions of AllFiles in increasing order name distinct files.
Increasing(idx) == \A i \in DOMAIN idx : i > 1 => idx[i - 1] < idx[i]

FilesAt(idx) == [i \in DOMAIN idx |-> AllFiles[idx[i]]]

(***************************************************************************)
(* The run: Detect on the directory, then Convert on its result.           *)
(***************************************************************************)
\* runMigrate has not returned.
NotReturned == [k |-> "running"]

\* No migrate run is under way.
NoRun ==
    /\ force = FALSE
    /\ dryRun = FALSE
    /\ outputPath = Nil
    /\ returned = NotReturned

Init ==
    /\ pc = "start"
    /\ \E n \in 0..MaxFiles : \E idx \in [1..n -> 1..Len(AllFiles)] :
            /\ Increasing(idx)
            /\ \E cs \in ContentSeqs(FilesAt(idx)) : dir = MkDir(FilesAt(idx), cs)
    /\ reads = <<>>
    /\ result = Nil
    /\ config = Nil
    /\ err = Nil
    /\ template = <<>>
    /\ rendered = <<>>
    /\ NoRun

DetectCall ==
    /\ pc = "start"
    /\ LET r == Detect(dir)
       IN  /\ result' = r.res
           /\ err' = r.err
           /\ reads' = r.reads
    /\ pc' = "detected"
    /\ UNCHANGED <<dir, config, template, rendered>>
    /\ UNCHANGED runVars

ConvertCall ==
    /\ pc = "detected"
    /\ LET c == Convert(result)
       IN  /\ config' = c.config
           /\ err' = c.err
    /\ pc' = "converted"
    /\ UNCHANGED <<dir, reads, result, template, rendered>>
    /\ UNCHANGED runVars

Next == DetectCall \/ ConvertCall

Spec == Init /\ [][Next]_vars

(***************************************************************************)
(* Convert on its own: the detection results it is applied to.             *)
(***************************************************************************)
\* "No such key" when a tree is put together; not a Go value.
NoKey == [k |-> "nokey"]

With(m, key, v) == IF v = NoKey THEN m ELSE Put(m, key, v)

Scoped(name) == SemanticReleaseScope \o name

PluginNames ==
    {<<"github">>, <<"gitlab">>, <<"npm">>, <<"changelog">>, <<"release-notes-generator">>,
     <<"commit-analyzer">>, <<"git">>, <<"exec">>, <<"slack">>}

ExecConfig == MapOf("prepareCmd", S(<<"make release">>))

\* The shapes of one element of "plugins".
PluginEntries ==
    {S(n) : n \in PluginNames} \cup {S(Scoped(n)) : n \in PluginNames}
        \cup {S(Scoped(Scoped(<<"git">>))), S(<<>>), S(<<"custom">>)}
        \cup {L(<<S(Scoped(<<"github">>))>>), L(<<S(<<"exec">>)>>)}
        \cup {L(<<S(n), c>>) :
                n \in {Scoped(<<"github">>), Scoped(<<"npm">>), Scoped(<<"exec">>),
                       <<"slack">>, Scoped(<<"git">>)},
                c \in {ExecConfig, M(EmptyMap)}}
        \cup {L(<<S(<<"gitlab">>), ExecConfig>>), L(<<S(Scoped(<<"npm">>)), S(<<"public">>)>>)}
        \cup {L(<<S(Scoped(<<"exec">>)), S(<<"make release">>)>>),
              L(<<S(<<"slack">>), L(<<>>)>>),
              L(<<S(<<"exec">>), ExecConfig, M(EmptyMap)>>)}
        \cup {L(<<>>), L(<<N(1)>>), L(<<N(1), ExecConfig>>), MapOf("path", S(<<"exec">>)),
              N(1), Nil}

AnyTool ==
    {ToolNone, ToolSemanticRelease, ToolReleaseIt, ToolStandardVersion, ToolGoReleaser,
     "semantic-release-monorepo", ""}

JsConfigTree == MapOf("_jsConfig", B(TRUE))

\* Trees every tool is given.
CommonTrees == {Nil, M(EmptyMap), JsConfigTree}

BranchEntries == {S(<<"main">>), MapOf("name", S(<<"next">>)), MapOf("name", N(1)), N(1)}

\* A detection result as a caller of Convert builds it.
Given(tool, data) == Result(tool, <<>>, data, Nil)

\* semantic-release trees
SemanticReleaseInput ==
    \/ \E n \in 0..MaxTagParts : \E p \in [1..n -> TagParts] :
            result = Given(ToolSemanticRelease, MapOf("tagFormat", S(Flatten(p))))
    \/ \E v \in {N(1), B(TRUE), Nil} : result = Given(ToolSemanticRelease, MapOf("tagFormat", v))
    \/ \E n \in 0..MaxPlugins : \E ps \in [1..n -> PluginEntries] :
            result = Given(ToolSemanticRelease, MapOf("plugins", L(ps)))
    \/ \E v \in {S(Scoped(<<"npm">>)), ExecConfig, Nil} : result = Given(ToolSemanticRelease, MapOf("plugins", v))
    \/ \E n \in 0..2 : \E bs \in [1..n -> BranchEntries] :
       \E ps \in {NoKey, L(<<S(Scoped(<<"npm">>))>>)} :
       \E t \in {NoKey, S(<<"v">> \o DollarVersion)} :
            result = Given(ToolSemanticRelease, With(With(MapOf("branches", L(bs)), "plugins", ps), "tagFormat", t))
    \/ result = Given(ToolSemanticRelease, MapOf("branches", S(<<"main">>)))

GitTrees ==
    {With(With(With(M(EmptyMap), "commitMessage", cm), "requireCleanWorkingDir", rc), "push", pu) :
        cm \in {NoKey, S(<<"chore(release): ">> \o DollarVersion), N(1)},
        rc \in {NoKey, B(FALSE), S(<<"no">>)},
        pu \in {NoKey, B(FALSE), B(TRUE)}}

GithubTrees ==
    {NoKey, S(<<"yes">>), MapOf("release", B(TRUE)), MapOf("release", S(<<"yes">>)),
     Put(MapOf("release", B(FALSE)), "draft", B(TRUE)),
     Put(Put(MapOf("release", B(TRUE)), "draft", B(TRUE)), "preRelease", B(FALSE)),
     Put(Put(MapOf("release", B(TRUE)), "draft", S(<<"yes">>)), "preRelease", B(TRUE))}

\* release-it trees
ReleaseItInput ==
    \/ \E n \in 0..MaxTagParts : \E p \in [1..n -> TagParts] :
            result = Given(ToolReleaseIt, MapOf("git", MapOf("tagName", S(Flatten(p)))))
    \/ \E v \in {N(1), B(TRUE), Nil} : result = Given(ToolReleaseIt, MapOf("git", MapOf("tagName", v)))
    \/ \E v \in {S(<<"v">> \o DollarVersion), L(<<>>)} : result = Given(ToolReleaseIt, MapOf("git", v))
    \/ \E g \in GitTrees :
       \E ta \in {NoKey, S(<<"Release ">> \o BraceVersion)} :
       \E np \in {NoKey, B(TRUE), B(FALSE), S(<<"yes">>)} :
       \E gh \in GithubTrees :
       \E gl \in {NoKey, MapOf("release", B(TRUE)), MapOf("release", B(FALSE))} :
            result = Given(ToolReleaseIt, With(With(With(MapOf("git", With(g, "tagAnnotation", ta)),
                                  "npm", IF np = NoKey THEN NoKey ELSE MapOf("publish", np)),
                             "github", gh),
                        "gitlab", gl))

SkipTrees ==
    {NoKey, S(<<"changelog">>)}
        \cup {With(With(M(EmptyMap), "changelog", c), "tag", t) :
                c \in {NoKey, B(TRUE), B(FALSE), S(<<"true">>)},
                t \in {NoKey, B(TRUE), B(FALSE), S(<<"true">>)}}

\* standard-version trees
StandardVersionInput ==
    \E tp \in {NoKey, S(<<"v">>), S(<<>>), N(1)} :
    \E sk \in SkipTrees :
    \E fm \in {NoKey, S(<<"chore(release): ">> \o BraceVersion), N(1)} :
    \E inf \in {NoKey, S(<<"HISTORY.md">>), B(TRUE)} :
        result = Given(ToolStandardVersion, With(With(With(With(M(EmptyMap), "tagPrefix", tp), "skip", sk),
                         "releaseCommitMessageFormat", fm), "infile", inf))

GoosEntries == {S(<<"linux">>), S(<<"windows">>), N(1)}

GoarchEntries == {S(<<"amd64">>), S(<<"arm64">>), S(<<"riscv64">>), N(386)}

ReleaseTrees ==
    {NoKey, M(EmptyMap), S(<<"github">>), MapOf("prerelease", B(TRUE)),
     Put(Put(Put(MapOf("github", Put(MapOf("owner", S(<<"relicta-tech">>)), "name", S(<<"migrate">>))),
                 "draft", B(TRUE)), "prerelease", S(<<"auto">>)),
         "name_template", S(<<"v">> \o DotVersion)),
     Put(MapOf("github", MapOf("owner", N(1))), "prerelease", S(<<"true">>))}

\* goreleaser trees
GoReleaserInput ==
    \/ \E pn \in {NoKey, S(<<"myapp">>), S(<<>>)} :
       \E rel \in {NoKey, M(EmptyMap)} :
       \E bin \in {NoKey, S(<<"plugin-test">>), S(<<>>), N(1)} :
       \E no \in 0..MaxOS : \E goos \in [1..no -> GoosEntries] :
       \E na \in 0..MaxArch : \E goarch \in [1..na -> GoarchEntries] :
       \E os \in {NoKey, S(<<"linux">>), L(goos)} :
       \E arch \in {NoKey, S(<<"amd64">>), L(goarch)} :
            /\ os.k # "list" => no = 0
            /\ arch.k # "list" => na = 0
            /\ result = Given(ToolGoReleaser, With(With(MapOf("builds",
                                      L(<<With(With(With(M(EmptyMap), "binary", bin), "goos", os),
                                               "goarch", arch)>>)),
                                "project_name", pn), "release", rel))
    \/ \E pn \in {NoKey, S(<<"myapp">>), N(1)} :
       \E rel \in ReleaseTrees :
       \E cl \in {NoKey, MapOf("skip", B(TRUE)), MapOf("skip", B(FALSE)), S(<<"skip">>)} :
       \E bs \in {NoKey, L(<<>>), L(<<S(<<"default">>)>>), S(<<"default">>),
                  L(<<MapOf("goos", L(<<S(<<"linux">>)>>)), MapOf("binary", S(<<"second">>))>>)} :
            result = Given(ToolGoReleaser, With(With(With(With(M(EmptyMap), "project_name", pn), "release", rel),
                             "changelog", cl), "builds", bs))

InitConvert ==
    /\ pc = "detected"
    /\ dir = <<>>
    /\ reads = <<>>
    /\ \/ \E tool \in AnyTool : \E data \in CommonTrees : result = Given(tool, data)
       \/ SemanticReleaseInput
       \/ ReleaseItInput
       \/ StandardVersionInput
       \/ GoReleaserInput
    /\ config = Nil
    /\ err = Nil
    /\ template = <<>>
    /\ rendered = <<>>
    /\ NoRun

SpecConvert == InitConvert /\ [][ConvertCall]_vars

(***************************************************************************)
(* convertTemplate on its own.                                             *)
(***************************************************************************)
InitTemplate ==
    /\ pc = "template"
    /\ \E n \in 0..MaxParts : \E p \in [1..n -> TemplateParts] : template = Flatten(p)
    /\ rendered = <<>>
    /\ dir = <<>>
    /\ reads = <<>>
    /\ result = Nil
    /\ config = Nil
    /\ err = Nil
    /\ NoRun

ConvertTemplateCall ==
    /\ pc = "template"
    /\ rendered' = convertTemplate(template)
    /\ pc' = "rendered"
    /\ UNCHANGED <<dir, reads, result, config, err, template>>
    /\ UNCHANGED runVars

SpecTemplate == InitTemplate /\ [][ConvertTemplateCall]_vars

(***************************************************************************)
(* Properties of Detect.                                                   *)
(***************************************************************************)
ScriptExts == {".js", ".cjs", ".ts"}

\* A dedicated file that a probe accepts: it parses, or it is a script file
\* that can be read.
Accepted(d, f) ==
    /\ f \in DOMAIN d
    /\ \/ d[f].kind \in {"json", "yaml"}
       \/ d[f].kind = "garbage" /\ Ext(f) \in ScriptExts

\* package.json parses as JSON and holds a mapping under key.
ManifestHolds(d, key) ==
    /\ PackageJSON \in DOMAIN d
    /\ d[PackageJSON].kind = "json"
    /\ d[PackageJSON].tree.k = "map"
    /\ key \in DOMAIN d[PackageJSON].tree.m
    /\ d[PackageJSON].tree.m[key].k = "map"

HasDedicated(d, tool) ==
    CASE tool = ToolSemanticRelease -> \E f \in Range(SemanticReleaseFiles) : Accepted(d, f)
      [] tool = ToolReleaseIt -> \E f \in Range(ReleaseItFiles) : Accepted(d, f)
      [] tool = ToolStandardVersion -> \E f \in Range(StandardVersionFiles) : Accepted(d, f)
      [] tool = ToolGoReleaser -> \E f \in Range(GoReleaserFiles) : Accepted(d, f)

\* The tool has at least one matching configuration in the directory.
Configured(d, tool) ==
    \/ HasDedicated(d, tool)
    \/ tool = ToolSemanticRelease /\ ManifestHolds(d, "release")
    \/ tool = ToolReleaseIt /\ ManifestHolds(d, "release-it")
    \/ tool = ToolStandardVersion /\ ManifestHolds(d, "standard-version")

ToolOrder == <<ToolSemanticRelease, ToolReleaseIt, ToolStandardVersion, ToolGoReleaser>>

Detected == pc \in {"detected", "converted"}

\* C1: Detect returns the first tool, in the order semantic-release,
\* release-it, standard-version, goreleaser, that has a matching
\* configuration in the directory: no tool before the returned one has a
\* match, and the returned one has.
C1_DetectPriority ==
    Detected =>
        \A i \in DOMAIN ToolOrder :
            (Configured(dir, ToolOrder[i]) /\ \A j \in 1..(i - 1) : ~Configured(dir, ToolOrder[j]))
                => result.Tool = ToolOrder[i]

\* Dedicated files of release-it and of goreleaser coexist and release-it is
\* returned.
C1_Witness ==
    /\ pc = "detected"
    /\ HasDedicated(dir, ToolReleaseIt)
    /\ HasDedicated(dir, ToolGoReleaser)
    /\ result.Tool = ToolReleaseIt

\* C2: Detect never returns an error and never a nil result, whatever the
\* directory holds; when no tool has a matching configuration the result's
\* tool is "none".
C2_DetectNoneIsNoError ==
    pc = "detected" =>
        /\ err = Nil
        /\ result # Nil
        /\ (\A i \in DOMAIN ToolOrder : ~Configured(dir, ToolOrder[i])) => result.Tool = ToolNone

\* A directory with an unreadable file and an unparseable one, and no match.
C2_Witness ==
    /\ pc = "detected"
    /\ \E f \in DOMAIN dir : dir[f].kind = "unreadable"
    /\ \E f \in DOMAIN dir : dir[f].kind = "garbage"
    /\ result.Tool = ToolNone
    /\ err = Nil

(***************************************************************************)
(* Properties of Convert.                                                  *)
(***************************************************************************)
RegisteredTools == {ToolSemanticRelease, ToolReleaseIt, ToolStandardVersion, ToolGoReleaser}

\* C3: for a detection result whose tool is "none" or any other identity
\* without a mapping, Convert returns no document and the unsupported-tool
\* error.
C3_UnsupportedToolFails ==
    (pc = "converted" /\ result.Tool \notin RegisteredTools) =>
        /\ config = Nil
        /\ err = S(<<"unsupported tool: ", result.Tool>>)

C3_Witness ==
    /\ pc = "converted"
    /\ result.Tool = ToolNone
    /\ result.ConfigData = M(EmptyMap)
    /\ config = Nil
    /\ err # Nil

\* C4: convertTemplate is idempotent, and its output holds none of the three
\* source placeholders.
C4_TemplateIdempotent ==
    pc = "rendered" =>
        /\ convertTemplate(rendered) = rendered
        /\ ~Contains(rendered, DollarVersion)
        /\ ~Contains(rendered, DollarNextRelease)
        /\ ~Contains(rendered, BraceVersion)

\* A template with two kinds of placeholder has been rewritten.
C4_Witness ==
    /\ pc = "rendered"
    /\ Contains(template, DollarVersion)
    /\ Contains(template, BraceVersion)
    /\ rendered # template
    /\ Contains(rendered, DotVersion)

(***************************************************************************)
(* Properties of the semantic-release plugin mapping.                      *)
(***************************************************************************)
CoreAbsorbed ==
    {<<"commit-analyzer">>, <<"release-notes-generator">>, <<"changelog">>, <<"git">>}

DirectEquivalent == {<<"github">>, <<"gitlab">>, <<"npm">>}

\* The entry names a plugin: it is a string, or a list that starts with one.
Named(e) == e.k = "str" \/ (e.k = "list" /\ Len(e.l) > 0 /\ e.l[1].k = "str")

\* The identifier of a source entry: its name with one "@semantic-release/"
\* scope removed; the empty string when the entry names no plugin.
Identifier(e) ==
    LET name == IF e.k = "str" THEN e.s ELSE IF Named(e) THEN e.l[1].s ELSE <<>>
    IN  IF name # <<>> /\ name[1] = "@semantic-release/" THEN Tail(name) ELSE name

\* The configuration a source entry declares: the second element of a list
\* entry; Nil when it declares none.
Declared(e) == IF e.k = "list" /\ Len(e.l) >= 2 THEN e.l[2] ELSE Nil

\* A semantic-release result with a list under "plugins" has been converted.
PluginsConverted ==
    /\ pc = "converted"
    /\ result.Tool = ToolSemanticRelease
    /\ result.ConfigData.k = "map"
    /\ "plugins" \in DOMAIN result.ConfigData.m
    /\ result.ConfigData.m["plugins"].k = "list"

SourcePlugins == result.ConfigData.m["plugins"].l

\* The positions of the source entries that are not core-absorbed, in order.
RECURSIVE KeptFrom(_, _)
KeptFrom(ps, i) ==
    IF i > Len(ps) THEN <<>>
    ELSE IF Identifier(ps[i]) \in CoreAbsorbed THEN KeptFrom(ps, i + 1)
    ELSE <<i>> \o KeptFrom(ps, i + 1)

Kept == KeptFrom(SourcePlugins, 1)

\* C5: the outcome of a source entry is decided by its identifier alone:
\* commit-analyzer, release-notes-generator, changelog and git give no
\* entry; github, gitlab and npm give an enabled entry of that name; exec
\* and every other identifier give a disabled entry that carries a note.
C5_PluginMappingTotal ==
    PluginsConverted =>
        /\ Len(config.Plugins) = Len(Kept)
        /\ \A j \in DOMAIN Kept :
            LET id == Identifier(SourcePlugins[Kept[j]])
                out == config.Plugins[j]
            IN  IF id \in DirectEquivalent
                THEN out.Enabled /\ out.Name = id
                ELSE /\ ~out.Enabled
                     /\ out.Config.k = "map"
                     /\ "_note" \in DOMAIN out.Config.m

\* A scoped core-absorbed name, a scoped direct equivalent and an unknown
\* name in one list.
C5_Witness ==
    /\ PluginsConverted
    /\ \E i, j \in DOMAIN SourcePlugins :
        /\ SourcePlugins[i] = S(Scoped(<<"git">>))
        /\ SourcePlugins[j] = S(Scoped(<<"npm">>))
    /\ Len(config.Plugins) = 1
    /\ config.Plugins[1].Enabled

\* The name an entry is emitted under.
EmittedName(id) == IF id = <<"exec">> THEN <<"custom">> ELSE id

\* C6: no source entry is dropped: the output has one entry for every source
\* entry that is not core-absorbed, whatever the entry's shape, and the
\* output entries stand in the order of their source entries.
C6_NoPluginDropped ==
    PluginsConverted =>
        /\ Len(config.Plugins) =
             Len(SourcePlugins)
               - Cardinality({i \in DOMAIN SourcePlugins : Identifier(SourcePlugins[i]) \in CoreAbsorbed})
        /\ \A j \in DOMAIN config.Plugins :
             config.Plugins[j].Name = EmittedName(Identifier(SourcePlugins[Kept[j]]))

\* An entry that names no plugin followed by a named one: both are emitted,
\* in that order.
C6_Witness ==
    /\ PluginsConverted
    /\ Len(SourcePlugins) = 2
    /\ ~Named(SourcePlugins[1])
    /\ SourcePlugins[2] = S(<<"slack">>)
    /\ Len(config.Plugins) = 2
    /\ config.Plugins[2].Name = <<"slack">>

C8_EmptyTreeDefaults ==
    (pc = "converted" /\ result.Tool \in RegisteredTools /\ result.ConfigData = M(EmptyMap)) =>
        /\ err = Nil
        /\ config.Versioning.Strategy = <<"conventional">>
        /\ config.Changelog.Enabled
        /\ config.Changelog.File = <<"CHANGELOG.md">>
        /\ config.Changelog.Template = <<>>
        /\ config.Git.RequireCleanTree
        /\ config.Git.PushTags
        /\ config.Git.CreateTag
        /\ config.Git.CommitMessage = <<>>
        /\ config.Git.TagMessage = <<>>
        /\ IF result.Tool = ToolGoReleaser
           THEN /\ config.Versioning.TagPrefix = <<"v">>
                /\ config.Git.AllowedBranches = << <<"main">> >>
           ELSE /\ config.Versioning.TagPrefix = <<>>
                /\ config.Git.AllowedBranches = <<>>
                /\ config.Plugins = <<>>

C8_Witness ==
    /\ pc = "converted"
    /\ result.Tool = ToolGoReleaser
    /\ result.ConfigData = M(EmptyMap)
    /\ config.Versioning.TagPrefix = <<"v">>

\* The tag template of a result: tagFormat of semantic-release, git.tagName
\* of release-it; Nil when there is none.
TagTemplate ==
    LET d == result.ConfigData
    IN  IF d.k # "map" THEN Nil
        ELSE IF result.Tool = ToolSemanticRelease /\ "tagFormat" \in DOMAIN d.m
             THEN d.m["tagFormat"]
        ELSE IF /\ result.Tool = ToolReleaseIt
                /\ "git" \in DOMAIN d.m
                /\ d.m["git"].k = "map"
                /\ "tagName" \in DOMAIN d.m["git"].m
             THEN d.m["git"].m["tagName"]
        ELSE Nil

\* C9: a tag template P followed by "${version}" gives the tag prefix P; for
\* the template "${version}" alone P is empty and the prefix stays unset
\* (the empty string).
C9_TagPrefixExtraction ==
    (pc = "converted" /\ TagTemplate.k = "str") =>
        LET t == TagTemplate.s
            n == Len(t) - Len(DollarVersion)
        IN  (n >= 0 /\ t = SubSeq(t, 1, n) \o DollarVersion)
                => config.Versioning.TagPrefix = SubSeq(t, 1, n)

\* release-it's "v${version}" gave the prefix "v".
C9_Witness ==
    /\ pc = "converted"
    /\ result.Tool = ToolReleaseIt
    /\ TagTemplate = S(<<"v">> \o DollarVersion)
    /\ config.Versioning.TagPrefix = <<"v">>

(***************************************************************************)
(* Properties of the goreleaser asset paths.                               *)
(***************************************************************************)
GoReleaserConverted == pc = "converted" /\ result.Tool = ToolGoReleaser

\* The asset paths the converted document carries.
Assets == config.Plugins[1].Config.m["assets"].l

\* The list the first build declares under key; Nil when it declares none.
DeclaredList(key) ==
    LET d == result.ConfigData
        builds == IF d.k = "map" /\ "builds" \in DOMAIN d.m THEN d.m["builds"] ELSE Nil
        build == IF builds.k = "list" /\ Len(builds.l) > 0 THEN builds.l[1] ELSE Nil
    IN  IF build.k = "map" /\ key \in DOMAIN build.m /\ build.m[key].k = "list"
        THEN build.m[key]
        ELSE Nil

Strings(l) == {i \in DOMAIN l : l[i].k = "str"}

DefaultOSCount == 3
DefaultArchCount == 2

ChecksumsLastAndOnce ==
    /\ Assets[Len(Assets)] = <<"release/", "checksums.txt">>
    /\ Cardinality({i \in DOMAIN Assets : Assets[i] = <<"release/", "checksums.txt">>}) = 1

\* C10 as stated: |OS| x |ARCH| + 1 paths, OS and ARCH being the declared
\* lists (or the defaults), the last one the checksums path, which occurs once.
C10_DeclaredMatrixSize ==
    GoReleaserConverted =>
        LET os == DeclaredList("goos")
            arch == DeclaredList("goarch")
            nos == IF os = Nil THEN DefaultOSCount ELSE Len(os.l)
            narch == IF arch = Nil THEN DefaultArchCount ELSE Len(arch.l)
        IN  Len(Assets) = nos * narch + 1 /\ ChecksumsLastAndOnce

\* C10, amended: OS and ARCH are the string elements of the declared lists.
C10_StringMatrixSize ==
    GoReleaserConverted =>
        LET os == DeclaredList("goos")
            arch == DeclaredList("goarch")
            nos == IF os = Nil THEN DefaultOSCount ELSE Cardinality(Strings(os.l))
            narch == IF arch = Nil THEN DefaultArchCount ELSE Cardinality(Strings(arch.l))
        IN  Len(Assets) = nos * narch + 1 /\ ChecksumsLastAndOnce

\* Two operating systems, and two architectures of which one is not a
\* string: three paths.
C10_Witness ==
    /\ GoReleaserConverted
    /\ DeclaredList("goos") = L(<<S(<<"linux">>), S(<<"windows">>)>>)
    /\ DeclaredList("goarch") = L(<<S(<<"amd64">>), N(386)>>)
    /\ Len(Assets) = 3

\* The strings of a declared list, in declaration order.
StringElements(l) ==
    LET strs == SelectSeq(l, LAMBDA v : v.k = "str")
    IN  [i \in DOMAIN strs |-> strs[i].s]

\* The operating systems and architectures the paths are produced for: the
\* strings the first build declares, or the default lists.
OSList ==
    IF DeclaredList("goos") = Nil THEN << <<"linux">>, <<"darwin">>, <<"windows">> >>
    ELSE StringElements(DeclaredList("goos").l)

ArchList ==
    IF DeclaredList("goarch") = Nil THEN << <<"amd64">>, <<"arm64">> >>
    ELSE StringElements(DeclaredList("goarch").l)

ArchName(arch) ==
    CASE arch = <<"amd64">> -> <<"x86_64">>
      [] arch = <<"arm64">> -> <<"aarch64">>
      [] OTHER -> arch

PathExt(os) == IF os = <<"windows">> THEN <<".zip">> ELSE <<".tar.gz">>

\* The binary part of the first path: what stands between "release/" and the
\* five tokens "_", os, "_", archName, ext.
FirstBinary == SubSeq(Assets[1], 2, Len(Assets[1]) - 5)

\* C11: the asset paths stand OS-major, architecture-minor in declaration
\* order (default-list order when nothing is declared): the path at
\* position (i - 1) * |ARCH| + j is "release/<binary>_<os i>_<archName j><ext>",
\* with archName x86_64 for amd64, aarch64 for arm64 and the architecture
\* itself otherwise, and ext ".zip" for windows and ".tar.gz" otherwise.
C11_AssetPathOrderAndFormat ==
    GoReleaserConverted =>
        /\ Len(Assets) = Len(OSList) * Len(ArchList) + 1
        /\ \A i \in DOMAIN OSList : \A j \in DOMAIN ArchList :
             Assets[(i - 1) * Len(ArchList) + j] =
                <<"release/">> \o FirstBinary \o <<"_">> \o OSList[i] \o <<"_">>
                    \o ArchName(ArchList[j]) \o PathExt(OSList[i])

\* The default matrix with the binary "plugin-test": seven paths, the sixth
\* being release/plugin-test_windows_aarch64.zip.
C11_Witness ==
    /\ GoReleaserConverted
    /\ DeclaredList("goos") = Nil
    /\ DeclaredList("goarch") = Nil
    /\ Len(Assets) = 7
    /\ Assets[1] = <<"release/", "plugin-test", "_", "linux", "_", "x86_64", ".tar.gz">>
    /\ Assets[6] = <<"release/", "plugin-test", "_", "windows", "_", "aarch64", ".zip">>

\* The positions of the plugin entries named "github".
GithubEntries == {i \in DOMAIN config.Plugins : config.Plugins[i].Name = <<"github">>}

\* The tree declares a release section: a mapping under "release".
DeclaresRelease ==
    /\ result.ConfigData.k = "map"
    /\ "release" \in DOMAIN result.ConfigData.m
    /\ result.ConfigData.m["release"].k = "map"

\* C12: the document converted from a goreleaser tree has exactly one plugin
\* entry named "github", and that entry is enabled, whether or not the tree
\* declares a release section.
C12_OneGithubPlugin ==
    GoReleaserConverted =>
        /\ Cardinality(GithubEntries) = 1
        /\ \A i \in GithubEntries : config.Plugins[i].Enabled

\* A tree with builds and a project name but no release section: the entry
\* is synthesized.
C12_Witness ==
    /\ GoReleaserConverted
    /\ result.ConfigData.k = "map"
    /\ "project_name" \in DOMAIN result.ConfigData.m
    /\ ~DeclaresRelease
    /\ Cardinality(GithubEntries) = 1
    /\ config.Plugins[1].Enabled

(***************************************************************************)
(* Properties of the probes.                                               *)
(***************************************************************************)
\* The dedicated candidates of a tool, in their listed order.
Candidates(tool) ==
    CASE tool = ToolSemanticRelease -> SemanticReleaseFiles
      [] tool = ToolReleaseIt -> ReleaseItFiles
      [] tool = ToolStandardVersion -> StandardVersionFiles
      [] tool = ToolGoReleaser -> GoReleaserFiles

\* The package.json key of a tool; goreleaser has none.
ManifestKey(tool) ==
    CASE tool = ToolSemanticRelease -> "release"
      [] tool = ToolReleaseIt -> "release-it"
      [] tool = ToolStandardVersion -> "standard-version"
      [] OTHER -> ""

\* The positions of the tool's candidates the reader accepts.
AcceptedAt(d, tool) == {i \in DOMAIN Candidates(tool) : Accepted(d, Candidates(tool)[i])}

FirstAccepted(d, tool) == CHOOSE i \in AcceptedAt(d, tool) : \A j \in AcceptedAt(d, tool) : i <= j

\* The last n files read.
LastReads(n) == SubSeq(reads, Len(reads) - n + 1, Len(reads))

ManifestPath(key) == <<"dir/", "package", ".json", " (", key, " key)">>

\* C13: in the probe of the returned tool the dedicated candidates are read
\* in their listed order up to the first one the reader accepts, which is
\* the reported config file; package.json is read, and reported with the
\* tool's key, only when the reader accepts none of the dedicated
\* candidates.
C13_CandidateOrder ==
    (Detected /\ result.Tool \in RegisteredTools) =>
        LET files == Candidates(result.Tool)
        IN  IF AcceptedAt(dir, result.Tool) # {}
            THEN LET i == FirstAccepted(dir, result.Tool)
                 IN  /\ result.ConfigFile = <<"dir/">> \o files[i]
                     /\ Len(reads) >= i
                     /\ LastReads(i) = SubSeq(files, 1, i)
            ELSE /\ result.ConfigFile = ManifestPath(ManifestKey(result.Tool))
                 /\ Len(reads) >= Len(files) + 1
                 /\ LastReads(Len(files) + 1) = files \o <<PackageJSON>>

\* .releaserc.json parses and package.json holds a "release" mapping: the
\* dedicated file is reported and package.json is not read.
C13_Witness ==
    /\ pc = "detected"
    /\ ManifestHolds(dir, "release")
    /\ Accepted(dir, <<".releaserc", ".json">>)
    /\ result.ConfigFile = <<"dir/", ".releaserc", ".json">>
    /\ reads = << <<".releaserc">>, <<".releaserc", ".json">> >>

\* A candidate the reader fails on: absent, unreadable, or parseable as
\* neither format and without a script extension.
FailsToLoad(d, f) ==
    \/ f \notin DOMAIN d
    \/ d[f].kind = "unreadable"
    \/ d[f].kind = "garbage" /\ Ext(f) \notin ScriptExts

\* The order of the whole scan: each tool's candidates, then its manifest
\* key, then the next tool.
FullCascade ==
    SemanticReleaseFiles \o <<PackageJSON>> \o ReleaseItFiles \o <<PackageJSON>>
        \o StandardVersionFiles \o <<PackageJSON>> \o GoReleaserFiles

\* C14: a candidate that is absent, unreadable or unparseable never aborts
\* the detection: no error is returned, the files are read in the order of
\* the whole scan (the tool's next candidate, then its manifest key, then the
\* next tool) past every failing candidate, and a tool that has a valid
\* configuration anywhere in that order is detected.
C14_SoftFailCascade ==
    Detected =>
        /\ pc = "detected" => err = Nil
        /\ Len(reads) <= Len(FullCascade)
        /\ reads = SubSeq(FullCascade, 1, Len(reads))
        /\ \A k \in 1..(Len(reads) - 1) : reads[k] = PackageJSON \/ FailsToLoad(dir, reads[k])
        /\ (\E t \in RegisteredTools : Configured(dir, t)) => result.Tool \in RegisteredTools
        /\ result.Tool = ToolNone => reads = FullCascade

\* An unparseable .releaserc and a valid goreleaser.yaml: goreleaser is found
\* at the very end of the scan.
C14_Witness ==
    /\ pc = "detected"
    /\ <<".releaserc">> \in DOMAIN dir
    /\ dir[<<".releaserc">>].kind = "garbage"
    /\ result.Tool = ToolGoReleaser
    /\ result.ConfigFile = <<"dir/", "goreleaser", ".yaml">>
    /\ reads = FullCascade

\* The package.json key consulted at a position of the whole scan.
KeyAt(k) ==
    CASE k = Len(SemanticReleaseFiles) + 1 -> "release"
      [] k = Len(SemanticReleaseFiles) + Len(ReleaseItFiles) + 2 -> "release-it"
      [] OTHER -> "standard-version"

\* The candidate at position k of the whole scan matches.
MatchAt(d, k) ==
    IF FullCascade[k] = PackageJSON THEN ManifestHolds(d, KeyAt(k))
    ELSE Accepted(d, FullCascade[k])

\* C15: Detect stops reading at the first match: the files read are those of
\* the whole scan up to and including the first candidate that matches, the
\* result is built from that last file read, and nothing after it is read
\* (no later candidate of the tool, no package.json, no later tool).
C15_ShortCircuit ==
    (Detected /\ result.Tool \in RegisteredTools) =>
        LET n == Len(reads)
        IN  /\ n >= 1
            /\ MatchAt(dir, n)
            /\ \A k \in 1..(n - 1) : ~MatchAt(dir, k)
            /\ reads = SubSeq(FullCascade, 1, n)
            /\ IF reads[n] = PackageJSON
               THEN result.ConfigFile = ManifestPath(KeyAt(n))
               ELSE result.ConfigFile = <<"dir/">> \o reads[n]

\* .releaserc matches while a goreleaser file is also valid: one file is
\* read.
C15_Witness ==
    /\ pc = "detected"
    /\ Accepted(dir, <<".releaserc">>)
    /\ HasDedicated(dir, ToolGoReleaser)
    /\ result.Tool = ToolSemanticRelease
    /\ reads = << <<".releaserc">> >>

\* The tool a dedicated candidate belongs to.
Owner(f) == CHOOSE t \in RegisteredTools : f \in Range(Candidates(t))

\* A script file that can be read and parses as neither JSON nor YAML.
OpaqueScript(d, f) ==
    /\ f \in DOMAIN d
    /\ d[f].kind = "garbage"
    /\ Ext(f) \in ScriptExts

OtherDetails ==
    {[k |-> "nil"],
     [k |-> "map", m |-> <<>>],
     [k |-> "map", m |-> [x \in {"tagPrefix"} |-> [k |-> "str", s |-> <<"other">>]]],
     [k |-> "map", m |-> [x \in {"plugins", "skip"} |-> [k |-> "num", n |-> 7]]]}

OtherFiles == {<<>>, <<"elsewhere/", ".versionrc">>}

\* The tool probed at a position of the whole scan.
ToolAt(k) ==
    IF FullCascade[k] # PackageJSON THEN Owner(FullCascade[k])
    ELSE CASE KeyAt(k) = "release" -> ToolSemanticRelease
           [] KeyAt(k) = "release-it" -> ToolReleaseIt
           [] OTHER -> ToolStandardVersion

\* The positions of the whole scan that match: read off the kinds of the
\* files and the shape of package.json, never off the highlights.
Matches(d) == {k \in DOMAIN FullCascade : MatchAt(d, k)}

\* C17: the document and the error Convert returns are those it returns for
\* the same tool and tree with any other highlights and any other config
\* file path; and the tool and file Detect returns are fixed by which
\* candidates match, whatever highlights are extracted from them.
C17_DetailsDoNotInfluence ==
    /\ pc = "converted" =>
        \A d \in OtherDetails : \A f \in OtherFiles :
            Convert([result EXCEPT !.Details = d, !.ConfigFile = f]) = [config |-> config, err |-> err]
    /\ pc = "detected" =>
        IF Matches(dir) = {} THEN result.Tool = ToolNone
        ELSE LET n == CHOOSE k \in Matches(dir) : \A j \in Matches(dir) : k <= j
             IN  /\ result.Tool = ToolAt(n)
                 /\ result.ConfigFile =
                        IF FullCascade[n] = PackageJSON THEN ManifestPath(KeyAt(n))
                        ELSE <<"dir/">> \o FullCascade[n]

\* A standard-version result with an extracted highlight has been converted.
C17_Witness ==
    /\ pc = "converted"
    /\ result.Tool = ToolStandardVersion
    /\ result.Details.k = "map"
    /\ "tagPrefix" \in DOMAIN result.Details.m
    /\ config.Versioning.TagPrefix = <<".versionrc">>

(***************************************************************************)
(* Best-effort field extraction.                                           *)
(***************************************************************************)
Absent == [k |-> "absent"]

\* The value at a path of keys; "0" steps into the first element of a list.
RECURSIVE At(_, _)
At(t, p) ==
    IF p = <<>> THEN t
    ELSE IF t.k = "map" /\ Head(p) \in DOMAIN t.m THEN At(t.m[Head(p)], Tail(p))
    ELSE IF t.k = "list" /\ Head(p) = "0" /\ Len(t.l) > 0 THEN At(t.l[1], Tail(p))
    ELSE Absent

\* The tree with the key at the end of a path removed.
RECURSIVE Without(_, _)
Without(t, p) ==
    IF t.k = "map" /\ Head(p) \in DOMAIN t.m
    THEN IF Len(p) = 1
         THEN [k |-> "map", m |-> [x \in DOMAIN t.m \ {Head(p)} |-> t.m[x]]]
         ELSE [k |-> "map", m |-> [x \in DOMAIN t.m |->
                    IF x = Head(p) THEN Without(t.m[x], Tail(p)) ELSE t.m[x]]]
    ELSE IF t.k = "list" /\ Head(p) = "0" /\ Len(t.l) > 0
    THEN [k |-> "list", l |-> [i \in DOMAIN t.l |->
                    IF i = 1 THEN Without(t.l[1], Tail(p)) ELSE t.l[i]]]
    ELSE t

Field(path, types) == [path |-> path, types |-> types]

\* The fields each converter recognises, with the types it expects.
RecognisedFields(tool) ==
    CASE tool = ToolSemanticRelease ->
            {Field(<<"tagFormat">>, {"str"}), Field(<<"branches">>, {"list"}),
             Field(<<"plugins">>, {"list"})}
      [] tool = ToolReleaseIt ->
            {Field(<<"git">>, {"map"}), Field(<<"git", "tagName">>, {"str"}),
             Field(<<"git", "commitMessage">>, {"str"}),
             Field(<<"git", "tagAnnotation">>, {"str"}),
             Field(<<"git", "requireCleanWorkingDir">>, {"bool"}),
             Field(<<"git", "push">>, {"bool"}),
             Field(<<"npm">>, {"map"}), Field(<<"npm", "publish">>, {"bool"}),
             Field(<<"github">>, {"map"}), Field(<<"github", "release">>, {"bool"}),
             Field(<<"github", "draft">>, {"bool"}),
             Field(<<"github", "preRelease">>, {"bool"}),
             Field(<<"gitlab">>, {"map"}), Field(<<"gitlab", "release">>, {"bool"})}
      [] tool = ToolStandardVersion ->
            {Field(<<"tagPrefix">>, {"str"}), Field(<<"skip">>, {"map"}),
             Field(<<"skip", "changelog">>, {"bool"}), Field(<<"skip", "tag">>, {"bool"}),
             Field(<<"releaseCommitMessageFormat">>, {"str"}), Field(<<"infile">>, {"str"})}
      [] tool = ToolGoReleaser ->
            {Field(<<"project_name">>, {"str"}), Field(<<"changelog">>, {"map"}),
             Field(<<"changelog", "skip">>, {"bool"}), Field(<<"release">>, {"map"}),
             Field(<<"release", "github">>, {"map"}),
             Field(<<"release", "github", "owner">>, {"str"}),
             Field(<<"release", "github", "name">>, {"str"}),
             Field(<<"release", "draft">>, {"bool"}),
             Field(<<"release", "prerelease">>, {"str", "bool"}),
             Field(<<"release", "name_template">>, {"str"}),
             Field(<<"builds">>, {"list"}), Field(<<"builds", "0", "binary">>, {"str"}),
             Field(<<"builds", "0", "goos">>, {"list"}),
             Field(<<"builds", "0", "goarch">>, {"list"})}

\* The recognised fields of the converted tree whose value has another type
\* than the converter expects.
Mistyped ==
    {f \in RecognisedFields(result.Tool) :
        At(result.ConfigData, f.path) # Absent /\ At(result.ConfigData, f.path).k \notin f.types}

\* C18: for each of the four tools and every tree, nil and empty included,
\* Convert returns no error and a complete document; and for every
\* recognised field whose value has an unexpected type the document is the
\* one Convert returns for the tree without that field.
C18_BestEffortExtraction ==
    (pc = "converted" /\ result.Tool \in RegisteredTools) =>
        /\ err = [k |-> "nil"]
        /\ config # [k |-> "nil"]
        /\ DOMAIN config = {"Versioning", "Changelog", "Git", "Plugins", "AI"}
        /\ config.Versioning.Strategy = <<"conventional">>
        /\ \A f \in Mistyped :
            Convert([result EXCEPT !.ConfigData = Without(result.ConfigData, f.path)])
                = [config |-> config, err |-> err]

\* standard-version with the string "true" under skip.changelog: the
\* changelog stays enabled.
C18_Witness ==
    /\ pc = "converted"
    /\ result.Tool = ToolStandardVersion
    /\ At(result.ConfigData, <<"skip", "changelog">>) = [k |-> "str", s |-> <<"true">>]
    /\ Mistyped # {}
    /\ config.Changelog.Enabled

(***************************************************************************)
(* cmd: runMigrate, step by step.  The file at the output path is absent   *)
(* (Nil), holds what it held before the run, or holds a written document.  *)
(***************************************************************************)
OldFile == [k |-> "old"]
Written(doc) == [k |-> "written", doc |-> doc]

OutputPathName == <<"dir/", "release.config.yaml">>

\* output.ToYAML: the text of the document, or an error.
ToYAML(doc, ok) ==
    IF ok THEN [yaml |-> Written(doc), err |-> Nil]
    ELSE [yaml |-> Nil, err |-> S(<<"yaml: marshal error">>)]

\* output.WriteYAML: the file holds the rendered document afterwards, or the
\* write fails and the file is as it was.
WriteYAML(file, doc, ok) ==
    IF ok THEN [file |-> Written(doc), err |-> Nil]
    ELSE [file |-> file, err |-> S(<<"write error">>)]

InitRun ==
    /\ pc = "run"
    /\ \E n \in 0..MaxRunFiles : \E idx \in [1..n -> 1..Len(AllFiles)] :
            /\ Increasing(idx)
            /\ \E cs \in ContentSeqs(FilesAt(idx)) : dir = MkDir(FilesAt(idx), cs)
    /\ force \in BOOLEAN
    /\ dryRun \in BOOLEAN
    /\ outputPath \in {Nil, OldFile}
    /\ returned = NotReturned
    /\ reads = <<>>
    /\ result = Nil
    /\ config = Nil
    /\ err = Nil
    /\ template = <<>>
    /\ rendered = <<>>

\* RunStat that lets the run go on over an existing file.
RunStatNoCheck ==
    /\ pc = "run"
    /\ returned' = returned
    /\ pc' = "stat"
    /\ UNCHANGED <<dir, reads, result, config, err, template, rendered, force, dryRun, outputPath>>

\* The os.Stat check of the output path.
RunStat ==
    /\ pc = "run"
    /\ IF outputPath # Nil /\ ~force /\ ~dryRun
       THEN /\ returned' = S(OutputPathName \o <<" already exists. Use --force to overwrite">>)
            /\ pc' = "returned"
       ELSE /\ returned' = returned
            /\ pc' = "stat"
    /\ UNCHANGED <<dir, reads, result, config, err, template, rendered, force, dryRun, outputPath>>

\* detector.Detect and the two checks of what it returns.
RunDetect ==
    /\ pc = "stat"
    /\ \E r \in {Detect(dir)} :
        /\ result' = r.res
        /\ err' = r.err
        /\ reads' = r.reads
        /\ IF r.err # Nil
           THEN /\ returned' = S(<<"detection failed: ">> \o r.err.s)
                /\ pc' = "returned"
           ELSE IF r.res.Tool = ToolNone
           THEN /\ returned' = S(<<"no release tool configuration found in ", "dir/">>)
                /\ pc' = "returned"
           ELSE /\ returned' = returned
                /\ pc' = "found"
    /\ UNCHANGED <<dir, config, template, rendered, force, dryRun, outputPath>>

\* converter.Convert and the check of its error.
RunConvert ==
    /\ pc = "found"
    /\ \E c \in {Convert(result)} :
        /\ config' = c.config
        /\ err' = c.err
        /\ IF c.err # Nil
           THEN /\ returned' = S(<<"conversion failed: ">> \o c.err.s)
                /\ pc' = "returned"
           ELSE /\ returned' = returned
                /\ pc' = "ready"
    /\ UNCHANGED <<dir, reads, result, template, rendered, force, dryRun, outputPath>>

\* RunOutput that writes the file in a dry run too.
RunOutputIgnoringDryRun ==
    /\ pc = "ready"
    /\ \E ok \in BOOLEAN :
        \E w \in {WriteYAML(outputPath, config, ok)} :
            /\ outputPath' = w.file
            /\ returned' = IF w.err = Nil THEN Nil
                           ELSE S(<<"failed to write config: ">> \o w.err.s)
    /\ pc' = "returned"
    /\ UNCHANGED <<dir, reads, result, config, err, template, rendered, force, dryRun>>

\* The output: the preview of a dry run, or the file.
RunOutput ==
    /\ pc = "ready"
    /\ \E ok \in BOOLEAN :
        IF dryRun
        THEN \E y \in {ToYAML(config, ok)} :
                /\ returned' = y.err
                /\ outputPath' = outputPath
        ELSE \E w \in {WriteYAML(outputPath, config, ok)} :
                /\ outputPath' = w.file
                /\ returned' = IF w.err = Nil THEN Nil
                               ELSE S(<<"failed to write config: ">> \o w.err.s)
    /\ pc' = "returned"
    /\ UNCHANGED <<dir, reads, result, config, err, template, rendered, force, dryRun>>

NextRun == RunStat \/ RunDetect \/ RunConvert \/ RunOutput

SpecRun == InitRun /\ [][NextRun]_vars

(***************************************************************************)
(* Properties of a migrate run.                                            *)
(***************************************************************************)
\* The run wrote the output file.
FileWritten == outputPath.k = "written"

\* The run returned an error.
RunFailed == pc = "returned" /\ returned # [k |-> "nil"]

\* C19: the output file is written only at the end of a run that is no dry
\* run, after Detect has returned a tool and Convert has returned a document
\* and no error, and what is written is that whole document; a run that
\* returns an error and a dry run leave the file as it was.
C19_WriteOnlyOnSuccess ==
    /\ FileWritten =>
        /\ pc = "returned"
        /\ returned = [k |-> "nil"]
        /\ ~dryRun
        /\ result # [k |-> "nil"]
        /\ result.Tool \in RegisteredTools
        /\ err = [k |-> "nil"]
        /\ config = Convert(result).config
        /\ outputPath = [k |-> "written", doc |-> config]
    /\ RunFailed => ~FileWritten
    /\ dryRun => ~FileWritten

\* A forced run over a directory with a release-it file has written the
\* document.
C19_Witness ==
    /\ pc = "returned"
    /\ force
    /\ ~dryRun
    /\ result.Tool = ToolReleaseIt
    /\ FileWritten
    /\ outputPath.doc = config

(***************************************************************************)
(* Direct-equivalent plugins.                                              *)
(***************************************************************************)
\* C20: a source entry that names github, gitlab or npm, with or without
\* the "@semantic-release/" prefix, is emitted enabled under the name
\* without the prefix, and its configuration is the configuration mapping
\* the entry declares, unchanged; it has none when the entry declares no
\* mapping.
C20_DirectEquivalentPassThrough ==
    PluginsConverted =>
        \A j \in DOMAIN Kept :
            LET e == SourcePlugins[Kept[j]]
                out == config.Plugins[j]
            IN  (Named(e) /\ Identifier(e) \in DirectEquivalent) =>
                    /\ out.Enabled
                    /\ out.Name = Identifier(e)
                    /\ out.Name \in {<<"github">>, <<"gitlab">>, <<"npm">>}
                    /\ out.Config = IF Declared(e).k = "map" THEN Declared(e) ELSE [k |-> "nil"]

\* A prefixed github entry with a configuration and a bare npm entry.
C20_Witness ==
    /\ PluginsConverted
    /\ SourcePlugins = <<L(<<S(Scoped(<<"github">>)), ExecConfig>>), S(<<"npm">>)>>
    /\ config.Plugins[1] = [Name |-> <<"github">>, Enabled |-> TRUE, Config |-> ExecConfig]
    /\ config.Plugins[2] = [Name |-> <<"npm">>, Enabled |-> TRUE, Config |-> [k |-> "nil"]]

(***************************************************************************)
(* The binary name of the goreleaser asset paths.                          *)
(***************************************************************************)
\* The binary part of a path: what stands between "release/" and the five
\* tokens "_", os, "_", archName, ext.
BinaryOf(path) == SubSeq(path, 2, Len(path) - 5)

\* A non-empty string under a key of a tree, or the empty string.
NameUnder(t, key) ==
    IF t.k = "map" /\ key \in DOMAIN t.m /\ t.m[key].k = "str" THEN t.m[key].s ELSE <<>>

\* The first build of the tree, when "builds" is a list that starts with a
\* mapping.
FirstBuild ==
    LET d == result.ConfigData
    IN  IF /\ d.k = "map"
           /\ "builds" \in DOMAIN d.m
           /\ d.m["builds"].k = "list"
           /\ Len(d.m["builds"].l) > 0
        THEN d.m["builds"].l[1]
        ELSE [k |-> "nil"]

\* The name the fallback chain gives: the binary of the first build, else
\* the project name, else the placeholder.
ChainedBinary ==
    IF NameUnder(FirstBuild, "binary") # <<>> THEN NameUnder(FirstBuild, "binary")
    ELSE IF NameUnder(result.ConfigData, "project_name") # <<>>
         THEN NameUnder(result.ConfigData, "project_name")
    ELSE <<"{", "{", ".ProjectName", "}", "}">>

\* C21: every asset path but the checksums path carries the binary declared
\* on the first build if there is one, otherwise the project name if
\* present, otherwise the placeholder "{{.ProjectName}}"; never the empty
\* string.
C21_BinaryNameFallback ==
    GoReleaserConverted =>
        \A i \in 1..(Len(Assets) - 1) :
            /\ BinaryOf(Assets[i]) = ChainedBinary
            /\ BinaryOf(Assets[i]) # <<>>

(***************************************************************************)
(* The source of a detection result.                                       *)
(***************************************************************************)
\* What the reader makes of a dedicated file the probes accept.
TreeOfFile(d, f) ==
    IF d[f].kind \in {"json", "yaml"} THEN d[f].tree
    ELSE [k |-> "map", m |-> [x \in {"_jsConfig"} |-> [k |-> "bool", b |-> TRUE]]]

\* The keys of package.json that qualify a config file.
Qualifiers == {"release", "release-it", "standard-version"}

\* The tree of the one source a reported config file names: the whole tree
\* of a dedicated file, or the value under the key of package.json.
SourceTree(d, configFile) ==
    IF \E key \in Qualifiers : configFile = ManifestPath(key)
    THEN LET key == CHOOSE q \in Qualifiers : configFile = ManifestPath(q)
         IN  d[PackageJSON].tree.m[key]
    ELSE LET f == CHOOSE g \in DOMAIN d : configFile = <<"dir/">> \o g
         IN  TreeOfFile(d, f)

\* C22: the tree of the returned result is that of exactly one source, the
\* reported config file: the whole parsed tree of a dedicated file, or the
\* value under the tool's key of package.json; it holds no key of any other
\* configuration of the directory.
C22_NoMerging ==
    (Detected /\ result.Tool \in RegisteredTools) =>
        /\ \/ \E key \in Qualifiers : result.ConfigFile = ManifestPath(key)
           \/ \E g \in DOMAIN dir : result.ConfigFile = <<"dir/">> \o g
        /\ result.ConfigData = SourceTree(dir, result.ConfigFile)
        /\ result.ConfigData.k = "map" =>
            DOMAIN result.ConfigData.m = DOMAIN SourceTree(dir, result.ConfigFile).m

\* .releaserc.json and a "release" mapping in package.json coexist: the
\* tree is the file's and holds nothing of the mapping.
C22_Witness ==
    /\ pc = "detected"
    /\ ManifestHolds(dir, "release")
    /\ Accepted(dir, <<".releaserc", ".json">>)
    /\ result.ConfigFile = <<"dir/", ".releaserc", ".json">>
    /\ result.ConfigData = dir[<<".releaserc", ".json">>].tree
    /\ "infile" \notin DOMAIN result.ConfigData.m
    /\ "infile" \in DOMAIN dir[PackageJSON].tree.m["release"].m

(***************************************************************************)
(* The package.json fallback.                                              *)
(***************************************************************************)
\* The tool a key of package.json configures.
ToolOfKey(key) ==
    CASE key = "release" -> ToolSemanticRelease
      [] key = "release-it" -> ToolReleaseIt
      [] key = "standard-version" -> ToolStandardVersion

\* C23: package.json is reported as the config file of a tool, with the
\* tool's key as qualifier, only when it parses as JSON and holds a mapping
\* under that key; when the key is absent or holds another value, or the
\* file does not parse as JSON, the config file is never the manifest path
\* with that qualifier.
C23_ManifestNeedsMapping ==
    Detected =>
        \A key \in Qualifiers :
            result.ConfigFile = ManifestPath(key) =>
                /\ PackageJSON \in DOMAIN dir
                /\ dir[PackageJSON].kind = "json"
                /\ dir[PackageJSON].tree.k = "map"
                /\ key \in DOMAIN dir[PackageJSON].tree.m
                /\ dir[PackageJSON].tree.m[key].k = "map"
                /\ result.Tool = ToolOfKey(key)

\* "release" holds a string and "release-it" a mapping: release-it is
\* reported from package.json.
C23_Witness ==
    /\ pc = "detected"
    /\ PackageJSON \in DOMAIN dir
    /\ dir[PackageJSON].kind = "json"
    /\ "release" \in DOMAIN dir[PackageJSON].tree.m
    /\ dir[PackageJSON].tree.m["release"].k = "str"
    /\ result.Tool = ToolReleaseIt
    /\ result.ConfigFile = ManifestPath("release-it")

(***************************************************************************)
(* The existing output file.                                               *)
(***************************************************************************)
\* The output path holds the file that was there before the run, and neither
\* --force nor --dry-run is set.
Protected == outputPath = OldFile /\ ~force /\ ~dryRun

AlreadyExists ==
    [k |-> "str", s |-> <<"dir/", "release.config.yaml",
                          " already exists. Use --force to overwrite">>]

\* C24: when the output path exists and neither --force nor --dry-run is
\* set, the run's first step returns the "already exists" error; nothing has
\* been detected or converted then, no file of the directory has been read,
\* and the existing file stays as it was in every step.
C24_ExistingOutputProtected ==
    /\ [](Protected =>
            /\ pc \in {"run", "returned"}
            /\ reads = <<>>
            /\ result = [k |-> "nil"]
            /\ config = [k |-> "nil"]
            /\ pc = "returned" => returned = AlreadyExists)
    /\ [][Protected => /\ pc' = "returned"
                       /\ returned' = AlreadyExists
                       /\ outputPath' = outputPath]_vars

\* A run over a directory that holds a release-it file has failed on the
\* existing output file.
C24_Witness ==
    /\ pc = "returned"
    /\ Protected
    /\ returned = AlreadyExists
    /\ HasDedicated(dir, ToolReleaseIt)
    /\ result = [k |-> "nil"]

(***************************************************************************)
(* The skip options of standard-version.                                   *)
(***************************************************************************)
\* The source tree holds the boolean true under skip.<key>.
SkipIsTrue(key) == At(result.ConfigData, <<"skip", key>>) = [k |-> "bool", b |-> TRUE]

\* C25: in the document converted from a standard-version tree the
\* changelog is disabled exactly when skip.changelog is the boolean true,
\* tag creation is disabled exactly when skip.tag is the boolean true, and
\* pushing tags and requiring a clean tree stay enabled whatever the skip
\* options are.
C25_SkipOptions ==
    (pc = "converted" /\ result.Tool = ToolStandardVersion) =>
        /\ config.Changelog.Enabled = ~SkipIsTrue("changelog")
        /\ config.Git.CreateTag = ~SkipIsTrue("tag")
        /\ config.Git.PushTags
        /\ config.Git.RequireCleanTree

\* skip.changelog is true and skip.tag is the string "true": only the
\* changelog is disabled.
C25_Witness ==
    /\ pc = "converted"
    /\ result.Tool = ToolStandardVersion
    /\ SkipIsTrue("changelog")
    /\ At(result.ConfigData, <<"skip", "tag">>) = [k |-> "str", s |-> <<"true">>]
    /\ ~config.Changelog.Enabled
    /\ config.Git.CreateTag

(***************************************************************************)
(* Tool priority and file kind.                                            *)
(***************************************************************************)
\* The tool at position i of the order is configured through its
\* package.json key only, no tool before it is configured, and a tool after
\* it has a dedicated config file the reader accepts.
ManifestOnlyAhead(d, i) ==
    /\ ManifestKey(ToolOrder[i]) # ""
    /\ ManifestHolds(d, ManifestKey(ToolOrder[i]))
    /\ ~HasDedicated(d, ToolOrder[i])
    /\ \A h \in 1..(i - 1) : ~Configured(d, ToolOrder[h])
    /\ \E j \in (i + 1)..Len(ToolOrder) : HasDedicated(d, ToolOrder[j])

\* C26: a tool configured only through its package.json key is returned,
\* with the manifest path and the mapping under its key, even when a tool
\* later in the order has a readable dedicated config file in the same
\* directory.
C26_PriorityOverFileKind ==
    Detected =>
        \A i \in DOMAIN ToolOrder :
            ManifestOnlyAhead(dir, i) =>
                /\ result.Tool = ToolOrder[i]
                /\ result.ConfigFile = ManifestPath(ManifestKey(ToolOrder[i]))
                /\ result.ConfigData = dir[PackageJSON].tree.m[ManifestKey(ToolOrder[i])]

\* package.json with a "release" mapping next to .release-it.json gives
\* semantic-release.
C26_Witness ==
    /\ pc = "detected"
    /\ ManifestHolds(dir, "release")
    /\ Accepted(dir, <<".release-it", ".json">>)
    /\ result.Tool = ToolSemanticRelease
    /\ result.ConfigFile = ManifestPath("release")

(***************************************************************************)
(* Tag templates that do not end with the placeholder.                     *)
(***************************************************************************)
\* C27: a tag template (tagFormat of semantic-release, git.tagName of
\* release-it) that does not end with "${version}" becomes the tag prefix
\* whole, placeholders inside it included; from a template that ends with
\* the placeholder twice only the last one is removed.
C27_TemplateWithoutTrailingPlaceholder ==
    (pc = "converted" /\ TagTemplate.k = "str") =>
        LET t == TagTemplate.s
            n == Len(t) - Len(DollarVersion)
            ends == n >= 0 /\ SubSeq(t, n + 1, Len(t)) = DollarVersion
        IN  /\ ~ends => config.Versioning.TagPrefix = t
            /\ (ends /\ HasSuffix(SubSeq(t, 1, n), DollarVersion))
                    => /\ config.Versioning.TagPrefix = SubSeq(t, 1, n)
                       /\ HasSuffix(config.Versioning.TagPrefix, DollarVersion)

\* semantic-release's "v${version}-" is the tag prefix as it stands.
C27_Witness ==
    /\ pc = "converted"
    /\ result.Tool = ToolSemanticRelease
    /\ TagTemplate = [k |-> "str", s |-> <<"v", "$", "{", "version", "}", "-">>]
    /\ config.Versioning.TagPrefix = <<"v", "$", "{", "version", "}", "-">>

(***************************************************************************)
(* The assets of the github entry.                                         *)
(***************************************************************************)
\* The tree declares builds: it is a mapping with the key "builds".
DeclaresBuilds == result.ConfigData.k = "map" /\ "builds" \in DOMAIN result.ConfigData.m

\* C28: the one github entry of the document converted from a goreleaser
\* tree has a config mapping with a non-empty list of strings under
\* "assets" whose last element is release/checksums.txt, whether the entry
\* comes from a release section or is synthesized; for a tree without
\* builds the list is the default matrix of six paths and the checksums
\* path, the binary being the project name when that is a non-empty string
\* and the placeholder "{{.ProjectName}}" otherwise.
C28_GithubEntryCarriesAssets ==
    GoReleaserConverted =>
        /\ Cardinality(GithubEntries) = 1
        /\ \A i \in GithubEntries :
            LET c == config.Plugins[i].Config
            IN  /\ c.k = "map"
                /\ "assets" \in DOMAIN c.m
                /\ c.m["assets"].k = "strs"
                /\ Len(c.m["assets"].l) >= 1
                /\ c.m["assets"].l[Len(c.m["assets"].l)] = <<"release/", "checksums.txt">>
                /\ ~DeclaresBuilds =>
                    /\ Len(c.m["assets"].l) = 7
                    /\ BinaryOf(c.m["assets"].l[1]) =
                         IF NameUnder(result.ConfigData, "project_name") = <<>>
                         THEN <<"{", "{", ".ProjectName", "}", "}">>
                         ELSE NameUnder(result.ConfigData, "project_name")

\* A tree with a project name and neither builds nor a release section: the
\* synthesized entry carries the default matrix for "myapp".
C28_Witness ==
    /\ GoReleaserConverted
    /\ ~DeclaresBuilds
    /\ ~DeclaresRelease
    /\ NameUnder(result.ConfigData, "project_name") = <<"myapp">>
    /\ Len(config.Plugins) = 1
    /\ DOMAIN config.Plugins[1].Config.m = {"assets"}
    /\ Len(Assets) = 7
    /\ Assets[1] = <<"release/", "myapp", "_", "linux", "_", "x86_64", ".tar.gz">>
    /\ Assets[7] = <<"release/", "checksums.txt">>

(***************************************************************************)
(* Plugin entries without a name.                                          *)
(***************************************************************************)
\* The output entry is a disabled manual-migration entry with the empty
\* name, a note, and original under "_original".
UnnamedManual(out, original) ==
    /\ ~out.Enabled
    /\ out.Name = <<>>
    /\ out.Config.k = "map"
    /\ DOMAIN out.Config.m = {"_note", "_original"}
    /\ out.Config.m["_note"].k = "str"
    /\ out.Config.m["_note"].s # <<>>
    /\ out.Config.m["_original"] = original

\* The output entry has nothing under "_original".
NothingKept(out) ==
    \/ out.Config = [k |-> "nil"]
    \/ /\ out.Config.k = "map"
       /\ "_original" \in DOMAIN out.Config.m => out.Config.m["_original"] = [k |-> "nil"]

\* The second element of a list entry is not a mapping.
SecondNotMapping(e) == e.k = "list" /\ Len(e.l) >= 2 /\ e.l[2].k # "map"

\* C29 as stated: every entry no name can be read from is emitted disabled
\* with the empty name and nothing under "_original", and an entry whose
\* second element is not a mapping has nothing under "_original".
C29_UnnamedKeepsNothing ==
    PluginsConverted =>
        /\ Len(config.Plugins) = Len(Kept)
        /\ \A j \in DOMAIN Kept :
            LET e == SourcePlugins[Kept[j]]
                out == config.Plugins[j]
            IN  /\ ~Named(e) => UnnamedManual(out, [k |-> "nil"])
                /\ SecondNotMapping(e) => NothingKept(out)

\* C29, amended: an entry no name can be read from is emitted disabled with
\* the empty name and a note; under "_original" it has the second element
\* of the entry when the entry is a list whose second element is a mapping,
\* and nothing otherwise. An entry whose second element is not a mapping
\* has nothing under "_original".
C29_UnnamedKeepsDeclaredMapping ==
    PluginsConverted =>
        /\ Len(config.Plugins) = Len(Kept)
        /\ \A j \in DOMAIN Kept :
            LET e == SourcePlugins[Kept[j]]
                out == config.Plugins[j]
            IN  /\ ~Named(e) =>
                    UnnamedManual(out, IF e.k = "list" /\ Len(e.l) >= 2 /\ e.l[2].k = "map"
                                       THEN e.l[2] ELSE [k |-> "nil"])
                /\ SecondNotMapping(e) => NothingKept(out)

\* The entry [1, {prepareCmd: ...}] has no name and keeps its mapping; the
\* entry {path: exec} after it keeps nothing.
C29_Witness ==
    /\ PluginsConverted
    /\ Len(SourcePlugins) = 2
    /\ SourcePlugins[1] = [k |-> "list", l |-> <<[k |-> "num", n |-> 1], ExecConfig>>]
    /\ SourcePlugins[2].k = "map"
    /\ Len(config.Plugins) = 2
    /\ config.Plugins[1].Name = <<>>
    /\ config.Plugins[1].Config.m["_original"] = ExecConfig
    /\ config.Plugins[2].Name = <<>>
    /\ config.Plugins[2].Config.m["_original"] = [k |-> "nil"]

(***************************************************************************)
(* Converting an opaque script config.                                     *)
(***************************************************************************)
\* The result of the detection carries the marker tree of a script config.
MarkerDetected ==
    /\ \E f \in DOMAIN dir : OpaqueScript(dir, f) /\ result.ConfigFile = <<"dir/">> \o f
    /\ result.ConfigData = [k |-> "map", m |-> [x \in {"_jsConfig"} |-> [k |-> "bool", b |-> TRUE]]]

\* C30: the document converted from a detected script config is the document
\* Convert gives for the same tool with the empty tree: the defaults, with
\* no tag prefix, branch, message or plugin entry, and so nothing that
\* records that the source could not be read.
C30_ScriptConfigGivesDefaults ==
    (pc = "converted" /\ MarkerDetected) =>
        /\ err = [k |-> "nil"]
        /\ config = Convert([result EXCEPT !.ConfigData = [k |-> "map", m |-> <<>>]]).config
        /\ config.Plugins = <<>>
        /\ config.Versioning = [Strategy |-> <<"conventional">>, TagPrefix |-> <<>>]
        /\ config.Changelog = [Enabled |-> TRUE, Template |-> <<>>, File |-> <<"CHANGELOG.md">>]
        /\ config.Git.RequireCleanTree /\ config.Git.PushTags /\ config.Git.CreateTag
        /\ config.Git.CommitMessage = <<>>
        /\ config.Git.TagMessage = <<>>
        /\ config.Git.AllowedBranches = <<>>

\* An unparseable release.config.js has been detected and converted.
C30_Witness ==
    /\ pc = "converted"
    /\ MarkerDetected
    /\ OpaqueScript(dir, <<"release", ".config", ".js">>)
    /\ result.Tool = ToolSemanticRelease
    /\ config.Plugins = <<>>
    /\ config.Versioning.TagPrefix = <<>>

====
